---- MODULE Spec2Model ----
(***************************************************************************)
(* Model of the TalentScout hiring assistant: the conversation stage       *)
(* machine of streamlit_app.py (process_user_input and the consent step of *)
(* main) running over the candidate store of src/mongodb_handler.py.       *)
(*                                                                         *)
(* Text is a sequence of one-character strings, so that the substring,     *)
(* split and regular-expression tests of the code are computed, not        *)
(* assumed.  Text produced by the language model or by formatting (the     *)
(* assistant's messages, the generated questions) is one token.            *)
(*                                                                         *)
(* Every action is one run of a handler, with every call it makes.  The    *)
(* calls to the language model return; the writes to MongoDB may fail:     *)
(* the write of save_candidate_data and the audit insert fail or succeed   *)
(* nondeterministically, a push to conversation_history fails once the     *)
(* document holds MaxHistory entries, an audit insert once the log holds   *)
(* MaxAudit events.  An exception that leaves process_user_input ends the  *)
(* run of the script; st.session_state keeps what was written before it.   *)
(*                                                                         *)
(* Not modelled: the Pinecone index (its answers are free text), the       *)
(* five-line conversation_context shown in the page, pending_resume        *)
(* (no stored conversation exists for a fresh candidate_id, so it stays    *)
(* False).                                                                 *)
(***************************************************************************)
EXTENDS Integers, Sequences, FiniteSets, TLC

(***************************************************************************)
(* Characters and the str methods the code uses.                           *)
(***************************************************************************)
UpperChars == <<"A","B","C","D","E","F","G","H","I","J","K","L","M",
                "N","O","P","Q","R","S","T","U","V","W","X","Y","Z">>
LowerChars == <<"a","b","c","d","e","f","g","h","i","j","k","l","m",
                "n","o","p","q","r","s","t","u","v","w","x","y","z">>
Digits == {"0","1","2","3","4","5","6","7","8","9"}
Letters == {UpperChars[i] : i \in 1..26} \cup {LowerChars[i] : i \in 1..26}
Whitespace == {" ", "\n", "\t"}

\* str.lower() on one character
LowerChar(c) ==
    IF \E i \in 1..26 : UpperChars[i] = c
    THEN LowerChars[CHOOSE i \in 1..26 : UpperChars[i] = c]
    ELSE c

\* str.lower()
str_lower(s) == [i \in 1..Len(s) |-> LowerChar(s[i])]

\* `sub in text` on str
str_contains(text, sub) ==
    \E i \in 0..(Len(text) - Len(sub)) : SubSeq(text, i + 1, i + Len(sub)) = sub

\* any(k in text for k in keys), keys a sequence of texts
AnyIn(keys, text) == \E i \in 1..Len(keys) : str_contains(text, keys[i])

\* str.strip()
RECURSIVE str_lstrip(_)
str_lstrip(s) ==
    IF s # <<>> /\ Head(s) \in Whitespace THEN str_lstrip(Tail(s)) ELSE s
RECURSIVE str_rstrip(_)
str_rstrip(s) ==
    IF s # <<>> /\ s[Len(s)] \in Whitespace
    THEN str_rstrip(SubSeq(s, 1, Len(s) - 1)) ELSE s
str_strip(s) == str_rstrip(str_lstrip(s))

\* str.split(): the maximal runs of non-whitespace characters, in order
RECURSIVE SplitWs(_, _, _)
SplitWs(s, cur, acc) ==
    IF s = <<>> THEN (IF cur = <<>> THEN acc ELSE Append(acc, cur))
    ELSE IF Head(s) \in Whitespace
         THEN SplitWs(Tail(s), <<>>, IF cur = <<>> THEN acc ELSE Append(acc, cur))
         ELSE SplitWs(Tail(s), Append(cur, Head(s)), acc)
str_split(s) == SplitWs(s, <<>>, <<>>)

\* str.split(sep) for a one-character separator: empty pieces are kept
RECURSIVE SplitOn(_, _, _, _)
SplitOn(s, sep, cur, acc) ==
    IF s = <<>> THEN Append(acc, cur)
    ELSE IF Head(s) = sep
         THEN SplitOn(Tail(s), sep, <<>>, Append(acc, cur))
         ELSE SplitOn(Tail(s), sep, Append(cur, Head(s)), acc)

\* str.replace(old, new) for one-character old and new
str_replace(s, old, new) == [i \in 1..Len(s) |-> IF s[i] = old THEN new ELSE s[i]]

\* the elements of seq that satisfy Keep, in order
RECURSIVE SelectNonEmpty(_)
SelectNonEmpty(seq) ==
    IF seq = <<>> THEN <<>>
    ELSE IF Head(seq) # <<>> THEN <<Head(seq)>> \o SelectNonEmpty(Tail(seq))
         ELSE SelectNonEmpty(Tail(seq))

\* ''.join(c for c in s if c in keep)
RECURSIVE FilterChars(_, _)
FilterChars(s, keep) ==
    IF s = <<>> THEN <<>>
    ELSE IF Head(s) \in keep THEN <<Head(s)>> \o FilterChars(Tail(s), keep)
         ELSE FilterChars(Tail(s), keep)

(***************************************************************************)
(* Conversation stages and their fixed order.                              *)
(***************************************************************************)
GREETING == "greeting"
COLLECTING_NAME == "collecting_name"
COLLECTING_EMAIL == "collecting_email"
COLLECTING_PHONE == "collecting_phone"
COLLECTING_EXPERIENCE == "collecting_experience"
COLLECTING_POSITION == "collecting_position"
COLLECTING_LOCATION == "collecting_location"
COLLECTING_TECH_STACK == "collecting_tech_stack"
ASKING_QUESTIONS == "asking_questions"
COMPLETED == "completed"

stage_flow == << GREETING, COLLECTING_NAME, COLLECTING_EMAIL, COLLECTING_PHONE,
                 COLLECTING_EXPERIENCE, COLLECTING_POSITION, COLLECTING_LOCATION,
                 COLLECTING_TECH_STACK, ASKING_QUESTIONS, COMPLETED >>

\* stage_flow.index(stage), counted from 1
StageIndex(s) == CHOOSE i \in 1..Len(stage_flow) : stage_flow[i] = s

(***************************************************************************)
(* Intent detectors.                                                       *)
(***************************************************************************)
exit_keywords == <<
    <<"b", "y", "e">>,
    <<"g", "o", "o", "d", "b", "y", "e">>,
    <<"e", "x", "i", "t">>,
    <<"q", "u", "i", "t">>,
    <<"s", "t", "o", "p">>,
    <<"e", "n", "d">>,
    <<"c", "a", "n", "c", "e", "l">>,
    <<"n", "o", " ", "t", "h", "a", "n", "k", "s">>,
    <<"n", "o", "t", " ", "i", "n", "t", "e", "r", "e", "s", "t", "e", "d">>,
    <<"l", "e", "a", "v", "e">>,
    <<"c", "l", "o", "s", "e">>,
    <<"f", "i", "n", "i", "s", "h">>,
    <<"d", "o", "n", "e">> >>

\* check_exit_intent that takes only a message that is a keyword
check_exit_intent_exact(user_input) ==
    \E i \in 1..Len(exit_keywords) : exit_keywords[i] = str_strip(str_lower(user_input))

\* check_exit_intent: a keyword is a substring of the lower-cased, stripped input
check_exit_intent(user_input) ==
    AnyIn(exit_keywords, str_strip(str_lower(user_input)))

context_patterns == <<
    <<"w", "h", "a", "t", " ", "d", "i", "d", " ", "i", " ", "s", "a", "y">>,
    <<"w", "h", "a", "t", " ", "w", "a", "s", " ", "m", "y">>,
    <<"d", "i", "d", " ", "i", " ", "m", "e", "n", "t", "i", "o", "n">>,
    <<"w", "h", "a", "t", "'", "s", " ", "m", "y">>,
    <<"r", "e", "m", "i", "n", "d", " ", "m", "e">>,
    <<"w", "h", "a", "t", " ", "d", "i", "d", " ", "y", "o", "u", " ", "a", "s", "k">>,
    <<"w", "h", "a", "t", " ", "p", "o", "s", "i", "t", "i", "o", "n">>,
    <<"w", "h", "a", "t", " ", "e", "m", "a", "i", "l">>,
    <<"w", "h", "a", "t", " ", "t", "e", "c", "h">>,
    <<"m", "y", " ", "e", "x", "p", "e", "r", "i", "e", "n", "c", "e">> >>

is_context_question(user_input) == AnyIn(context_patterns, str_lower(user_input))

NoField == "none"
\* the trigger table of detect_update_intent, in the dict's insertion order
update_patterns == <<
    [field |-> "full_name", triggers |-> <<
        <<"c", "h", "a", "n", "g", "e", " ", "m", "y", " ", "n", "a", "m", "e">>,
        <<"u", "p", "d", "a", "t", "e", " ", "m", "y", " ", "n", "a", "m", "e">>,
        <<"m", "y", " ", "n", "a", "m", "e", " ", "i", "s">>,
        <<"c", "a", "l", "l", " ", "m", "e">> >>],
    [field |-> "email", triggers |-> <<
        <<"c", "h", "a", "n", "g", "e", " ", "m", "y", " ", "e", "m", "a", "i", "l">>,
        <<"u", "p", "d", "a", "t", "e", " ", "m", "y", " ", "e", "m", "a", "i", "l">> >>],
    [field |-> "phone", triggers |-> <<
        <<"c", "h", "a", "n", "g", "e", " ", "m", "y", " ", "p", "h", "o", "n", "e">>,
        <<"u", "p", "d", "a", "t", "e", " ", "m", "y", " ", "p", "h", "o", "n", "e">> >>],
    [field |-> "current_location", triggers |-> <<
        <<"c", "h", "a", "n", "g", "e", " ", "m", "y", " ", "l", "o", "c", "a", "t", "i", "o", "n">> >>],
    [field |-> "desired_position", triggers |-> <<
        <<"c", "h", "a", "n", "g", "e", " ", "m", "y", " ", "p", "o", "s", "i", "t", "i", "o", "n">> >>] >>

\* detect_update_intent that returns the last matching field of the table
detect_update_intent_last_match(user_input) ==
    LET text == str_lower(user_input)
        hits == {i \in 1..Len(update_patterns) : AnyIn(update_patterns[i].triggers, text)}
    IN  IF hits = {} THEN NoField
        ELSE update_patterns[CHOOSE i \in hits : \A j \in hits : i >= j].field

\* detect_update_intent: the first field of the table one of whose triggers is
\* in the lower-cased input, or NoField
detect_update_intent(user_input) ==
    LET text == str_lower(user_input)
        hits == {i \in 1..Len(update_patterns) : AnyIn(update_patterns[i].triggers, text)}
    IN  IF hits = {} THEN NoField
        ELSE update_patterns[CHOOSE i \in hits : \A j \in hits : i <= j].field

\* user_input.split()[-1]
last_token(user_input) == LET parts == str_split(user_input) IN parts[Len(parts)]

(***************************************************************************)
(* Validators of MongoDBHandler.                                           *)
(***************************************************************************)
EmailLocalChars == Letters \cup Digits \cup {".", "_", "%", "+", "-"}
EmailDomainChars == Letters \cup Digits \cup {".", "-"}
AllIn(s, chars) == \A i \in 1..Len(s) : s[i] \in chars

\* re.match(r'^[a-zA-Z0-9._%+-]+@[a-zA-Z0-9.-]+\.[a-zA-Z]{2,}$', email): some "@"
\* at position a and some "." at position d split the text into a non-empty local
\* part, a non-empty domain and a suffix of two or more letters.  ($ also matches
\* before one final newline.)
validate_email(email) ==
    LET e == IF email # <<>> /\ email[Len(email)] = "\n"
             THEN {email, SubSeq(email, 1, Len(email) - 1)} ELSE {email}
    IN  \E s \in e : \E a \in 2..Len(s) : \E d \in (a + 2)..(Len(s) - 2) :
            /\ s[a] = "@"
            /\ s[d] = "."
            /\ AllIn(SubSeq(s, 1, a - 1), EmailLocalChars)
            /\ AllIn(SubSeq(s, a + 1, d - 1), EmailDomainChars)
            /\ AllIn(SubSeq(s, d + 1, Len(s)), Letters)

PhoneSeparators == Whitespace \cup {"-", "(", ")", "+"}

\* validate_phone that removes the space but no other whitespace character
validate_phone_spaces_only(phone) ==
    LET phone_clean == FilterChars(phone, {c \in {phone[i] : i \in 1..Len(phone)} :
                                              c \notin {" ", "-", "(", ")", "+"}})
    IN  /\ phone_clean # <<>>
        /\ AllIn(phone_clean, Digits)
        /\ 10 <= Len(phone_clean)
        /\ Len(phone_clean) <= 15

\* re.sub(r'[\s\-\(\)\+]', '', phone), then isdigit() and 10 <= len <= 15
validate_phone(phone) ==
    LET phone_clean == FilterChars(phone, {c \in {phone[i] : i \in 1..Len(phone)} :
                                              c \notin PhoneSeparators})
    IN  /\ phone_clean # <<>>
        /\ AllIn(phone_clean, Digits)
        /\ 10 <= Len(phone_clean)
        /\ Len(phone_clean) <= 15

(***************************************************************************)
(* The messages a user sends in the model.                                 *)
(***************************************************************************)
\* "Asha Rao"
mName == <<"A", "s", "h", "a", " ", "R", "a", "o">>
\* "asha@x.com"
mEmail == <<"a", "s", "h", "a", "@", "x", ".", "c", "o", "m">>
\* "9876543210"
mPhone == <<"9", "8", "7", "6", "5", "4", "3", "2", "1", "0">>
\* "3"
mExp == <<"3">>
\* "Backend Engineer"
mPos == <<"B", "a", "c", "k", "e", "n", "d", " ", "E", "n", "g", "i", "n", "e", "e", "r">>
\* "CTO"
mPos2 == <<"C", "T", "O">>
\* "Pune, India"
mLoc == <<"P", "u", "n", "e", ",", " ", "I", "n", "d", "i", "a">>
\* "Go, Postgres, Docker"
mTech == <<"G", "o", ",", " ", "P", "o", "s", "t", "g", "r", "e", "s", ",", " ", "D", "o", "c", "k", "e", "r">>
\* "Use an index"
mAns == <<"U", "s", "e", " ", "a", "n", " ", "i", "n", "d", "e", "x">>
\* "no"
mShort == <<"n", "o">>
\* "C++"
mCpp == <<"C", "+", "+">>
\* "exit"
mExit == <<"e", "x", "i", "t">>
\* "change my email please"
mUpdEmailBad == <<"c", "h", "a", "n", "g", "e", " ", "m", "y", " ", "e", "m", "a", "i", "l", " ", "p", "l", "e", "a", "s", "e">>
\* "remind me when done"
mCtxExit == <<"r", "e", "m", "i", "n", "d", " ", "m", "e", " ", "w", "h", "e", "n", " ", "d", "o", "n", "e">>
\* "Remind me, update my email please"
mCtxUpd == <<"R", "e", "m", "i", "n", "d", " ", "m", "e", ",", " ", "u", "p", "d", "a", "t", "e", " ", "m", "y", " ", "e", "m", "a", "i", "l", " ", "p", "l", "e", "a", "s", "e">>
\* "change my name, bye"
mExitUpd == <<"c", "h", "a", "n", "g", "e", " ", "m", "y", " ", "n", "a", "m", "e", ",", " ", "b", "y", "e">>

\* the text of an assistant message: generated or formatted text, kept as one token
Text(kind) == << kind >>

(***************************************************************************)
(* Bounds of the model.                                                    *)
(***************************************************************************)
\* entries a document's conversation_history can take before a push fails
MaxHistory == 3
\* events the audit collection can take before an insert fails
MaxAudit == 2

(***************************************************************************)
(* State.                                                                  *)
(***************************************************************************)
VARIABLES
    consent_given,           \* st.session_state.consent_given
    stage,                   \* st.session_state.stage
    candidate_data,          \* st.session_state.candidate_data
    current_question_index,  \* st.session_state.current_question_index
    conversation_ended,      \* st.session_state.conversation_ended
    candidate_id,            \* st.session_state.candidate_id
    context_manager,         \* TRUE iff st.session_state.context_manager is not None
    messages,                \* what the last handler appended to st.session_state.messages
    candidates,              \* the candidates collection: candidate_id -> document
    audit_log,               \* the audit_log collection, in insertion order
    cipher,                  \* the key of MongoDBHandler.cipher
    environ,                 \* os.environ and the secret the secrets manager holds
    now,                     \* datetime.now(), in days
    calls,                   \* the cleanup_old_data calls in flight: caller -> locals
    last,                    \* history: what the last handler call did
    scriptPos                \* history: inputs of Scenario fed so far, -1 once off it

sessionVars == << consent_given, stage, candidate_data, current_question_index,
                  conversation_ended, candidate_id, context_manager, messages >>
storeVars == << candidates, audit_log, cipher, environ, now, calls >>
vars == << sessionVars, storeVars, last, scriptPos >>

None == "None"
\* no cleanup_old_data call is running
NoCalls == <<>>
\* the environment of a handler that is already constructed is not read again
NoEnviron == <<>>
\* uuid.uuid4(): an identifier no document carries yet
NewCandidateId == "candidate_1"
CandidateIds == {"candidate_1", "candidate_2"}

\* days of the retention window
RetentionDays == 365
\* num_questions of the call in process_user_input
num_questions == 5

EmptyCandidateData ==
    [ full_name |-> <<>>, email |-> <<>>, phone |-> <<>>, years_experience |-> <<>>,
      desired_position |-> <<>>, current_location |-> <<>>, tech_stack |-> <<>>,
      technical_questions |-> <<>>, answers |-> <<>> ]

(***************************************************************************)
(* MongoDBHandler: encryption, audit log, candidate documents.             *)
(***************************************************************************)
\* Fernet(key).encrypt: a token only the same key opens; "" stays ""
_encrypt_data(key, data) ==
    IF data = <<>> THEN <<>> ELSE << "fernet", key >> \o data

\* update_one(..., {"$set": fields}, upsert=True) on one document
SetFields(doc, fields) ==
    [f \in (DOMAIN doc) \cup (DOMAIN fields) |->
        IF f \in DOMAIN fields THEN fields[f] ELSE doc[f]]

\* the document an upsert inserts when the filter matches none
UpsertBase(cid) == [candidate_id |-> cid]

\* _log_audit_event that inserts the event twice
_log_audit_event_twice(log, event_type, cid, details, t, insert_ok) ==
    LET event == [timestamp |-> t, event_type |-> event_type,
                  candidate_id |-> cid, details |-> details]
    IN  IF insert_ok THEN Append(Append(log, event), event) ELSE log

\* _log_audit_event that keeps one event for each candidate_id
_log_audit_event_replaces(log, event_type, cid, details, t, insert_ok) ==
    IF insert_ok
    THEN Append(SelectSeq(log, LAMBDA event : event.candidate_id # cid),
                [timestamp |-> t, event_type |-> event_type,
                 candidate_id |-> cid, details |-> details])
    ELSE log

\* _log_audit_event: insert_one, a failure is logged and swallowed
_log_audit_event(log, event_type, cid, details, t, insert_ok) ==
    IF insert_ok
    THEN Append(log, [timestamp |-> t, event_type |-> event_type,
                      candidate_id |-> cid, details |-> details])
    ELSE log

\* the document save_candidate_data builds from the record
encrypted_doc(key, cid, data, t) ==
    [ candidate_id |-> cid,
      created_at |-> t,
      retention_until |-> t + RetentionDays,
      full_name |-> _encrypt_data(key, data.full_name),
      email |-> _encrypt_data(key, data.email),
      phone |-> _encrypt_data(key, data.phone),
      years_experience |-> data.years_experience,
      desired_position |-> data.desired_position,
      current_location |-> data.current_location,
      tech_stack |-> data.tech_stack,
      technical_questions |-> data.technical_questions,
      answers |-> data.answers,
      consent_given |-> TRUE,
      consent_timestamp |-> t ]

\* save_candidate_data that encrypts the three fields in the caller's dict before it
\* writes
save_candidate_data_in_place(cands, log, key, cid, data, t, write_ok, insert_ok) ==
    LET enc == [data EXCEPT !.full_name = _encrypt_data(key, data.full_name),
                            !.email = _encrypt_data(key, data.email),
                            !.phone = _encrypt_data(key, data.phone)]
    IN  IF write_ok
        THEN [ candidates |->
                   (cid :> SetFields(IF cid \in DOMAIN cands THEN cands[cid]
                                                              ELSE UpsertBase(cid),
                                     encrypted_doc(key, cid, data, t))) @@ cands,
               audit_log |-> _log_audit_event(log, "DATA_CREATED", cid,
                                              "Candidate data saved", t, insert_ok),
               candidate_data |-> enc,
               raised |-> FALSE ]
        ELSE [ candidates |-> cands, audit_log |-> log, candidate_data |-> enc,
               raised |-> TRUE ]

\* save_candidate_data that logs DATA_UPDATED when the document was saved before
save_candidate_data_updated_event(cands, log, key, cid, data, t, write_ok, insert_ok) ==
    LET existed == cid \in DOMAIN cands /\ "created_at" \in DOMAIN cands[cid]
    IN  IF write_ok
        THEN [ candidates |->
                   (cid :> SetFields(IF cid \in DOMAIN cands THEN cands[cid]
                                                              ELSE UpsertBase(cid),
                                     encrypted_doc(key, cid, data, t))) @@ cands,
               audit_log |-> _log_audit_event(log,
                                 IF existed THEN "DATA_UPDATED" ELSE "DATA_CREATED",
                                 cid, "Candidate data saved", t, insert_ok),
               candidate_data |-> data,
               raised |-> FALSE ]
        ELSE [ candidates |-> cands, audit_log |-> log, candidate_data |-> data,
               raised |-> TRUE ]

\* save_candidate_data that adds the answers to those of the stored document
\* ($push) instead of replacing them ($set)
save_candidate_data_pushes(cands, log, key, cid, data, t, write_ok, insert_ok) ==
    LET old == IF cid \in DOMAIN cands THEN cands[cid] ELSE UpsertBase(cid)
        before == IF "answers" \in DOMAIN old THEN old.answers ELSE <<>>
        doc == [encrypted_doc(key, cid, data, t) EXCEPT !.answers = before \o data.answers]
    IN  IF write_ok
        THEN [ candidates |-> (cid :> SetFields(old, doc)) @@ cands,
               audit_log |-> _log_audit_event(log, "DATA_CREATED", cid,
                                              "Candidate data saved", t, insert_ok),
               candidate_data |-> data,
               raised |-> FALSE ]
        ELSE [ candidates |-> cands, audit_log |-> log, candidate_data |-> data,
               raised |-> TRUE ]

\* save_candidate_data whose update_one has no upsert
save_candidate_data_no_upsert(cands, log, key, cid, data, t, write_ok, insert_ok) ==
    IF write_ok
    THEN [ candidates |->
               IF cid \in DOMAIN cands
               THEN (cid :> SetFields(cands[cid], encrypted_doc(key, cid, data, t))) @@ cands
               ELSE cands,
           audit_log |-> _log_audit_event(log, "DATA_CREATED", cid,
                                          "Candidate data saved", t, insert_ok),
           candidate_data |-> data,
           raised |-> FALSE ]
    ELSE [ candidates |-> cands, audit_log |-> log, candidate_data |-> data,
           raised |-> TRUE ]

\* save_candidate_data that replaces the whole document (replace_one) instead of
\* setting the fields of the record
save_candidate_data_replaces(cands, log, key, cid, data, t, write_ok, insert_ok) ==
    IF write_ok
    THEN [ candidates |->
               (cid :> SetFields(UpsertBase(cid), encrypted_doc(key, cid, data, t))) @@ cands,
           audit_log |-> _log_audit_event(log, "DATA_CREATED", cid,
                                          "Candidate data saved", t, insert_ok),
           candidate_data |-> data,
           raised |-> FALSE ]
    ELSE [ candidates |-> cands, audit_log |-> log, candidate_data |-> data,
           raised |-> TRUE ]

\* save_candidate_data: upsert of the encrypted record, then one DATA_CREATED
\* audit event; a failed write is raised again and logs no event.  candidate_data
\* is the caller's dict after the call: the method only reads it.
save_candidate_data(cands, log, key, cid, data, t, write_ok, insert_ok) ==
    IF write_ok
    THEN [ candidates |->
               (cid :> SetFields(IF cid \in DOMAIN cands THEN cands[cid] ELSE UpsertBase(cid),
                                 encrypted_doc(key, cid, data, t))) @@ cands,
           audit_log |-> _log_audit_event(log, "DATA_CREATED", cid,
                                          "Candidate data saved", t, insert_ok),
           candidate_data |-> data,
           raised |-> FALSE ]
    ELSE [ candidates |-> cands, audit_log |-> log, candidate_data |-> data,
           raised |-> TRUE ]

\* store_conversation_message: $push of one entry with upsert; a failure is swallowed
store_conversation_message(cands, cid, role, message, stg, t, write_ok) ==
    LET entry == [role |-> role, message |-> message, stage |-> stg, timestamp |-> t]
        old == IF cid \in DOMAIN cands THEN cands[cid] ELSE UpsertBase(cid)
        hist == IF "conversation_history" \in DOMAIN old
                THEN old.conversation_history ELSE <<>>
    IN  IF write_ok
        THEN (cid :> SetFields(old, [conversation_history |-> Append(hist, entry)])) @@ cands
        ELSE cands

\* whether the document of cid can take one more conversation_history entry
HistoryHasRoom(cands, cid) ==
    \/ cid \notin DOMAIN cands
    \/ "conversation_history" \notin DOMAIN cands[cid]
    \/ Len(cands[cid].conversation_history) < MaxHistory

\* add_message, its part on the candidates collection (candidate_id is set)
add_message(cands, cid, role, content, stg, t) ==
    store_conversation_message(cands, cid, role, content, stg, t,
                               HistoryHasRoom(cands, cid))

\* the entry add_message appends to st.session_state.messages
Msg(role, content) == [role |-> role, content |-> content]

(***************************************************************************)
(* The stage machine: the pure parts of process_user_input.                *)
(***************************************************************************)
\* get_next_stage over a stage_flow that lists the email and phone stages in the
\* wrong order
get_next_stage_misordered(s) ==
    LET flow == << GREETING, COLLECTING_NAME, COLLECTING_PHONE, COLLECTING_EMAIL,
                   COLLECTING_EXPERIENCE, COLLECTING_POSITION, COLLECTING_LOCATION,
                   COLLECTING_TECH_STACK, ASKING_QUESTIONS, COMPLETED >>
        current_index == CHOOSE i \in 1..Len(flow) : flow[i] = s
    IN  IF current_index < Len(flow) THEN flow[current_index + 1] ELSE s

\* get_next_stage: the next stage of stage_flow, the last stage stays
get_next_stage(s) ==
    LET current_index == StageIndex(s)
    IN  IF current_index < Len(stage_flow) THEN stage_flow[current_index + 1] ELSE s

\* Each collecting branch: the record after the branch and whether it accepted.
Accepted(cd) == [data |-> cd, accepted |-> TRUE]
Rejected(cd) == [data |-> cd, accepted |-> FALSE]

collect_name(cd, user_input) ==
    IF Len(str_split(user_input)) >= 1
    THEN Accepted([cd EXCEPT !.full_name = user_input]) ELSE Rejected(cd)

\* collect_email that stores the input before it validates it
collect_email_unvalidated(cd, user_input) ==
    [data |-> [cd EXCEPT !.email = user_input], accepted |-> validate_email(user_input)]

collect_email(cd, user_input) ==
    IF validate_email(user_input)
    THEN Accepted([cd EXCEPT !.email = user_input]) ELSE Rejected(cd)

collect_phone(cd, user_input) ==
    IF validate_phone(user_input)
    THEN Accepted([cd EXCEPT !.phone = user_input]) ELSE Rejected(cd)

\* ''.join(c for c in user_input if c.isdigit() or c == '.')
experience_of(user_input) == FilterChars(user_input, Digits \cup {"."})

collect_experience(cd, user_input) ==
    LET exp == experience_of(user_input)
    IN  IF exp # <<>>
        THEN Accepted([cd EXCEPT !.years_experience = exp]) ELSE Rejected(cd)

\* collect_position that also writes the location (a copied branch)
collect_position_copied(cd, user_input) ==
    IF Len(user_input) > 2
    THEN [data |-> [cd EXCEPT !.desired_position = user_input,
                              !.current_location = user_input], accepted |-> TRUE]
    ELSE [data |-> cd, accepted |-> FALSE]

collect_position(cd, user_input) ==
    IF Len(user_input) > 2
    THEN Accepted([cd EXCEPT !.desired_position = user_input]) ELSE Rejected(cd)

collect_location(cd, user_input) ==
    IF Len(user_input) > 2
    THEN Accepted([cd EXCEPT !.current_location = user_input]) ELSE Rejected(cd)

\* the branch of a collecting stage
collect(stg, cd, user_input) ==
    CASE stg = COLLECTING_NAME -> collect_name(cd, user_input)
      [] stg = COLLECTING_EMAIL -> collect_email(cd, user_input)
      [] stg = COLLECTING_PHONE -> collect_phone(cd, user_input)
      [] stg = COLLECTING_EXPERIENCE -> collect_experience(cd, user_input)
      [] stg = COLLECTING_POSITION -> collect_position(cd, user_input)
      [] stg = COLLECTING_LOCATION -> collect_location(cd, user_input)

\* [item.strip() for item in user_input.replace('\n', ',').replace(';', ',').split(',')
\*  if item.strip()]
tech_items(user_input) ==
    LET pieces == SplitOn(str_replace(str_replace(user_input, "\n", ","), ";", ","),
                          ",", <<>>, <<>>)
    IN  SelectNonEmpty([i \in 1..Len(pieces) |-> str_strip(pieces[i])])

\* generate_technical_questions(...)[:num_questions]: k distinct questions, k <= 5
QuestionTexts == << Text("Q1?"), Text("Q2?"), Text("Q3?"), Text("Q4?"), Text("Q5?") >>
GeneratedQuestions(k) == SubSeq(QuestionTexts, 1, k)

\* apply_update that writes the value under the key "full_name" whatever the field
apply_update_wrong_key(cd, update_field, new_value) == [cd EXCEPT !.full_name = new_value]

\* candidate_data[update_field] = new_value
apply_update(cd, update_field, new_value) == [cd EXCEPT ![update_field] = new_value]

\* candidate_data["answers"].append({"question": ..., "answer": user_input})
append_answer(cd, question, user_input) ==
    [cd EXCEPT !.answers = Append(@, [question |-> question, answer |-> user_input])]

(***************************************************************************)
(* The user: what is typed at each stage.                                  *)
(***************************************************************************)
IntentMessages ==
    { mExit, mUpdEmailBad, mCtxExit, mCtxUpd, mExitUpd }

StageMessages(stg) ==
    CASE stg = COLLECTING_NAME -> { mName }
      [] stg = COLLECTING_EMAIL -> { mEmail, mShort }
      [] stg = COLLECTING_PHONE -> { mPhone, mShort }
      [] stg = COLLECTING_EXPERIENCE -> { mExp, mShort }
      [] stg = COLLECTING_POSITION -> { mPos, mPos2, mShort }
      [] stg = COLLECTING_LOCATION -> { mLoc, mShort }
      [] stg = COLLECTING_TECH_STACK -> { mTech, mCpp }
      [] OTHER -> { mAns }

Offered(stg) == StageMessages(stg) \cup IntentMessages

AllMessages == UNION { Offered(stage_flow[i]) : i \in 1..Len(stage_flow) }

\* The detectors on the messages of the model, computed once.
ExitIntentOf == [m \in AllMessages |-> check_exit_intent(m)]
UpdateIntentOf == [m \in AllMessages |-> detect_update_intent(m)]
ContextQuestionOf == [m \in AllMessages |-> is_context_question(m)]

\* the end-to-end scenario: name, email, phone, experience, position, location,
\* tech stack, then five answers
Scenario == << mName, mEmail, mPhone, mExp, mPos, mLoc, mTech,
               mAns, mAns, mAns, mAns, mAns >>

\* position in the scenario after one more input; -1 once the session has left the
\* scenario (another input, another number of questions, a failed database write)
ScriptStep(pos, user_input, ok) ==
    IF pos >= 0 /\ pos < Len(Scenario) /\ ok /\ Scenario[pos + 1] = user_input
    THEN pos + 1 ELSE -1

\* history of a handler call that made no save_candidate_data call
Last(user_input, path, raised) ==
    [op |-> "process_user_input", input |-> user_input, path |-> path, saves |-> 0,
     write_ok |-> TRUE, insert_ok |-> TRUE, raised |-> raised, save_arg |-> <<>>]

\* history of a handler call that called save_candidate_data once, with record arg
LastSave(user_input, path, write_ok, insert_ok, raised, arg) ==
    [op |-> "process_user_input", input |-> user_input, path |-> path, saves |-> 1,
     write_ok |-> write_ok, insert_ok |-> insert_ok, raised |-> raised, save_arg |-> arg]

(***************************************************************************)
(* Initial state: the session state of a first run, an empty database.     *)
(***************************************************************************)
Init ==
    /\ consent_given = FALSE
    /\ stage = GREETING
    /\ candidate_data = EmptyCandidateData
    /\ current_question_index = 0
    /\ conversation_ended = FALSE
    /\ candidate_id = None
    /\ context_manager \in BOOLEAN
    /\ messages = <<>>
    /\ candidates = <<>>
    /\ audit_log = <<>>
    /\ cipher = "key_1"
    /\ environ = NoEnviron
    /\ now = 0
    /\ calls = NoCalls
    /\ last = Last(<<>>, "init", FALSE)
    /\ scriptPos = 0

(***************************************************************************)
(* main: the consent button.  No earlier conversation exists for a fresh   *)
(* candidate_id, so the greeting starts at once.                           *)
(***************************************************************************)
\* a consent button that assigns the id and greets without recording the consent
AcceptConsent_unrecorded ==
    /\ ~consent_given
    /\ candidate_id = None
    /\ candidate_id' = NewCandidateId
    /\ consent_given' = FALSE
    /\ LET c1 == add_message(candidates, NewCandidateId, "assistant",
                             Text("greeting"), stage, now)
           c2 == add_message(c1, NewCandidateId, "assistant",
                             Text("ask_name"), stage, now)
       IN  candidates' = c2
    /\ messages' = << Msg("assistant", Text("greeting")), Msg("assistant", Text("ask_name")) >>
    /\ stage' = get_next_stage(stage)
    /\ last' = Last(<<>>, "consent", FALSE)
    /\ UNCHANGED << candidate_data, current_question_index, conversation_ended,
                    context_manager, audit_log, cipher, environ, now, calls, scriptPos >>

AcceptConsent ==
    /\ ~consent_given
    /\ candidate_id' = NewCandidateId
    /\ consent_given' = TRUE
    /\ LET c1 == add_message(candidates, NewCandidateId, "assistant",
                             Text("greeting"), stage, now)
           c2 == add_message(c1, NewCandidateId, "assistant",
                             Text("ask_name"), stage, now)
       IN  candidates' = c2
    /\ messages' = << Msg("assistant", Text("greeting")), Msg("assistant", Text("ask_name")) >>
    /\ stage' = get_next_stage(stage)
    /\ last' = Last(<<>>, "consent", FALSE)
    /\ UNCHANGED << candidate_data, current_question_index, conversation_ended,
                    context_manager, audit_log, cipher, environ, now, calls, scriptPos >>

(***************************************************************************)
(* main: the Send and Exit buttons call process_user_input while the       *)
(* conversation has not ended.                                             *)
(***************************************************************************)
InputEnabled(user_input) ==
    /\ consent_given
    /\ ~conversation_ended
    /\ user_input \in Offered(stage)
    /\ str_strip(user_input) = user_input
    /\ user_input # <<>>

\* handle_context_question returns a response
ContextAnswered(user_input) ==
    /\ ContextQuestionOf[user_input]
    /\ context_manager
    /\ candidate_id # None

\* the outcomes of the two database writes of save_candidate_data
SaveOutcome(write_ok, insert_ok) ==
    /\ insert_ok => write_ok
    /\ insert_ok => Len(audit_log) < MaxAudit

\* process_user_input, the context question branch
ContextQuestion(user_input) ==
    /\ InputEnabled(user_input)
    /\ ContextAnswered(user_input)
    /\ candidates' =
         add_message(add_message(candidates, candidate_id, "user", user_input, stage, now),
                     candidate_id, "assistant", Text("context_reply"), stage, now)
    /\ messages' = << Msg("user", user_input), Msg("assistant", Text("context_reply")) >>
    /\ last' = Last(user_input, "context", FALSE)
    /\ scriptPos' = ScriptStep(scriptPos, user_input, TRUE)
    /\ UNCHANGED << consent_given, stage, candidate_data, current_question_index,
                    conversation_ended, candidate_id, context_manager,
                    audit_log, cipher, environ, now, calls >>

\* process_user_input, the exit branch
ExitIntent(user_input) ==
    /\ InputEnabled(user_input)
    /\ ~ContextAnswered(user_input)
    /\ ExitIntentOf[user_input]
    /\ LET c0 == add_message(candidates, candidate_id, "user", user_input, stage, now)
       IN  IF candidate_data.full_name # <<>>
           THEN \E write_ok \in BOOLEAN, insert_ok \in BOOLEAN :
                   /\ SaveOutcome(write_ok, insert_ok)
                   /\ LET r == save_candidate_data(c0, audit_log, cipher, candidate_id,
                                                   candidate_data, now, write_ok, insert_ok)
                      IN  /\ audit_log' = r.audit_log
                          /\ candidate_data' = r.candidate_data
                          /\ IF r.raised
                             THEN /\ candidates' = r.candidates
                                  /\ messages' = << Msg("user", user_input) >>
                                  /\ conversation_ended' = conversation_ended
                             ELSE /\ candidates' = add_message(r.candidates, candidate_id,
                                         "assistant", Text("goodbye_saved"), stage, now)
                                  /\ messages' = << Msg("user", user_input),
                                                    Msg("assistant", Text("goodbye_saved")) >>
                                  /\ conversation_ended' = TRUE
                          /\ last' = LastSave(user_input, "exit", write_ok, insert_ok,
                                              r.raised, candidate_data)
           ELSE /\ candidates' = add_message(c0, candidate_id, "assistant",
                                             Text("goodbye"), stage, now)
                /\ messages' = << Msg("user", user_input), Msg("assistant", Text("goodbye")) >>
                /\ conversation_ended' = TRUE
                /\ last' = Last(user_input, "exit", FALSE)
                /\ UNCHANGED << audit_log, candidate_data >>
    /\ scriptPos' = ScriptStep(scriptPos, user_input, last'.write_ok /\ last'.insert_ok)
    /\ UNCHANGED << consent_given, stage, current_question_index, candidate_id,
                    context_manager, cipher, environ, now, calls >>

\* process_user_input, the update branch
UpdateIntent(user_input) ==
    /\ InputEnabled(user_input)
    /\ ~ContextAnswered(user_input)
    /\ ~ExitIntentOf[user_input]
    /\ UpdateIntentOf[user_input] # NoField
    /\ LET update_field == UpdateIntentOf[user_input]
           new_value == last_token(user_input)
           updated == apply_update(candidate_data, update_field, new_value)
           c0 == add_message(candidates, candidate_id, "user", user_input, stage, now)
       IN  \E write_ok \in BOOLEAN, insert_ok \in BOOLEAN :
              /\ SaveOutcome(write_ok, insert_ok)
              /\ LET r == save_candidate_data(c0, audit_log, cipher, candidate_id,
                                              updated, now, write_ok, insert_ok)
                 IN  /\ audit_log' = r.audit_log
                     /\ candidate_data' = r.candidate_data
                     /\ IF r.raised
                        THEN /\ candidates' = r.candidates
                             /\ messages' = << Msg("user", user_input) >>
                        ELSE /\ candidates' = add_message(r.candidates, candidate_id,
                                    "assistant", Text("updated"), stage, now)
                             /\ messages' = << Msg("user", user_input),
                                               Msg("assistant", Text("updated")) >>
                     /\ last' = LastSave(user_input, "update", write_ok, insert_ok,
                                         r.raised, updated)
    /\ scriptPos' = ScriptStep(scriptPos, user_input, last'.write_ok /\ last'.insert_ok)
    /\ UNCHANGED << consent_given, stage, current_question_index, conversation_ended,
                    candidate_id, context_manager, cipher, environ, now, calls >>

\* no special branch takes the input: the branch of the current stage runs
StageInput(user_input) ==
    /\ InputEnabled(user_input)
    /\ ~ContextAnswered(user_input)
    /\ ~ExitIntentOf[user_input]
    /\ UpdateIntentOf[user_input] = NoField

CollectingStages ==
    { COLLECTING_NAME, COLLECTING_EMAIL, COLLECTING_PHONE, COLLECTING_EXPERIENCE,
      COLLECTING_POSITION, COLLECTING_LOCATION }

\* process_user_input, the branches COLLECTING_NAME .. COLLECTING_LOCATION
CollectField(user_input) ==
    /\ StageInput(user_input)
    /\ stage \in CollectingStages
    /\ LET r == collect(stage, candidate_data, user_input)
           next == IF r.accepted THEN get_next_stage(stage) ELSE stage
           reply == Text(IF r.accepted THEN "next_prompt" ELSE "corrective_prompt")
       IN  /\ candidate_data' = r.data
           /\ stage' = next
           /\ candidates' =
                add_message(add_message(candidates, candidate_id, "user", user_input, stage, now),
                            candidate_id, "assistant", reply, next, now)
           /\ messages' = << Msg("user", user_input), Msg("assistant", reply) >>
    /\ last' = Last(user_input, "collect", FALSE)
    /\ scriptPos' = ScriptStep(scriptPos, user_input, TRUE)
    /\ UNCHANGED << consent_given, current_question_index, conversation_ended,
                    candidate_id, context_manager, audit_log, cipher, environ, now, calls >>

\* process_user_input, the branch COLLECTING_TECH_STACK; questions[0] of an empty
\* list raises IndexError after the record and the stage were written
CollectTechStack(user_input) ==
    /\ StageInput(user_input)
    /\ stage = COLLECTING_TECH_STACK
    /\ LET c0 == add_message(candidates, candidate_id, "user", user_input, stage, now)
       IN  IF Len(user_input) > 3
           THEN \E k \in 0..num_questions :
                  LET questions == GeneratedQuestions(k)
                      next == get_next_stage(stage)
                  IN  /\ candidate_data' =
                            [candidate_data EXCEPT !.tech_stack = tech_items(user_input),
                                                   !.technical_questions = questions]
                      /\ current_question_index' = 0
                      /\ stage' = next
                      /\ IF questions = <<>>
                         THEN /\ candidates' = c0
                              /\ messages' = << Msg("user", user_input) >>
                              /\ last' = Last(user_input, "tech_stack", TRUE)
                         ELSE /\ candidates' = add_message(c0, candidate_id, "assistant",
                                                  Text("first_question"), next, now)
                              /\ messages' = << Msg("user", user_input),
                                                Msg("assistant", Text("first_question")) >>
                              /\ last' = Last(user_input, "tech_stack", FALSE)
                      /\ scriptPos' = ScriptStep(scriptPos, user_input, k = num_questions)
           ELSE /\ candidates' = add_message(c0, candidate_id, "assistant",
                                             Text("corrective_prompt"), stage, now)
                /\ messages' = << Msg("user", user_input),
                                  Msg("assistant", Text("corrective_prompt")) >>
                /\ last' = Last(user_input, "tech_stack", FALSE)
                /\ scriptPos' = ScriptStep(scriptPos, user_input, TRUE)
                /\ UNCHANGED << candidate_data, current_question_index, stage >>
    /\ UNCHANGED << consent_given, conversation_ended, candidate_id, context_manager,
                    audit_log, cipher, environ, now, calls >>

\* process_user_input, the branch ASKING_QUESTIONS; questions[current_idx] past the
\* end of the list raises IndexError before anything is written
AnswerQuestion(user_input) ==
    /\ StageInput(user_input)
    /\ stage = ASKING_QUESTIONS
    /\ LET questions == candidate_data.technical_questions
           current_idx == current_question_index
           c0 == add_message(candidates, candidate_id, "user", user_input, stage, now)
       IN  IF current_idx >= Len(questions)
           THEN /\ candidates' = c0
                /\ messages' = << Msg("user", user_input) >>
                /\ last' = Last(user_input, "answer", TRUE)
                /\ UNCHANGED << candidate_data, current_question_index, stage,
                                conversation_ended, audit_log >>
           ELSE LET answered == append_answer(candidate_data, questions[current_idx + 1],
                                              user_input)
                IN  /\ current_question_index' = current_idx + 1
                    /\ IF current_idx + 1 >= Len(questions)
                       THEN LET c1 == add_message(c0, candidate_id, "assistant",
                                                  Text("thank_you"), COMPLETED, now)
                            IN  \E write_ok \in BOOLEAN, insert_ok \in BOOLEAN :
                                  /\ SaveOutcome(write_ok, insert_ok)
                                  /\ LET r == save_candidate_data(c1, audit_log, cipher,
                                                  candidate_id, answered, now,
                                                  write_ok, insert_ok)
                                     IN  /\ stage' = COMPLETED
                                         /\ audit_log' = r.audit_log
                                         /\ candidate_data' = r.candidate_data
                                         /\ IF r.raised
                                            THEN /\ candidates' = r.candidates
                                                 /\ messages' = << Msg("user", user_input),
                                                        Msg("assistant", Text("thank_you")) >>
                                                 /\ conversation_ended' = conversation_ended
                                            ELSE /\ candidates' = add_message(r.candidates,
                                                        candidate_id, "assistant",
                                                        Text("screening_complete"),
                                                        COMPLETED, now)
                                                 /\ messages' = << Msg("user", user_input),
                                                        Msg("assistant", Text("thank_you")),
                                                        Msg("assistant", Text("screening_complete")) >>
                                                 /\ conversation_ended' = TRUE
                                         /\ last' = LastSave(user_input, "answer", write_ok,
                                                          insert_ok, r.raised, answered)
                       ELSE /\ candidate_data' = answered
                            /\ candidates' = add_message(c0, candidate_id, "assistant",
                                                         Text("next_question"), stage, now)
                            /\ messages' = << Msg("user", user_input),
                                              Msg("assistant", Text("next_question")) >>
                            /\ last' = Last(user_input, "answer", FALSE)
                            /\ UNCHANGED << stage, conversation_ended, audit_log >>
    /\ scriptPos' = ScriptStep(scriptPos, user_input, last'.write_ok /\ last'.insert_ok)
    /\ UNCHANGED << consent_given, candidate_id, context_manager, cipher, environ, now, calls >>

\* process_user_input, the fallback branch (GREETING, COMPLETED)
Fallback(user_input) ==
    /\ StageInput(user_input)
    /\ stage \notin CollectingStages \cup {COLLECTING_TECH_STACK, ASKING_QUESTIONS}
    /\ candidates' =
         add_message(add_message(candidates, candidate_id, "user", user_input, stage, now),
                     candidate_id, "assistant", Text("fallback"), stage, now)
    /\ messages' = << Msg("user", user_input), Msg("assistant", Text("fallback")) >>
    /\ last' = Last(user_input, "fallback", FALSE)
    /\ scriptPos' = ScriptStep(scriptPos, user_input, TRUE)
    /\ UNCHANGED << consent_given, stage, candidate_data, current_question_index,
                    conversation_ended, candidate_id, context_manager,
                    audit_log, cipher, environ, now, calls >>

Next ==
    \/ AcceptConsent
    \/ \E user_input \in AllMessages : ContextQuestion(user_input)
    \/ \E user_input \in AllMessages : ExitIntent(user_input)
    \/ \E user_input \in AllMessages : UpdateIntent(user_input)
    \/ \E user_input \in AllMessages : CollectField(user_input)
    \/ \E user_input \in AllMessages : CollectTechStack(user_input)
    \/ \E user_input \in AllMessages : AnswerQuestion(user_input)
    \/ \E user_input \in AllMessages : Fallback(user_input)

Spec == Init /\ [][Next]_vars


(***************************************************************************)
(* Properties.                                                             *)
(***************************************************************************)
\* a step that is a call of process_user_input on last'.input
InputStep == last'.path \notin {"init", "consent"}

DataCreatedEvent(cid, t) ==
    [timestamp |-> t, event_type |-> "DATA_CREATED", candidate_id |-> cid,
     details |-> "Candidate data saved"]

\* the document of cid holds the record cd, its three personal fields under key
HoldsRecord(cands, cid, key, cd) ==
    /\ cid \in DOMAIN cands
    /\ Cardinality({id \in DOMAIN cands : cands[id].candidate_id = cid}) = 1
    /\ "full_name" \in DOMAIN cands[cid]
    /\ cands[cid].full_name = _encrypt_data(key, cd.full_name)
    /\ cands[cid].email = _encrypt_data(key, cd.email)
    /\ cands[cid].phone = _encrypt_data(key, cd.phone)
    /\ \A f \in {"years_experience", "desired_position", "current_location",
                 "tech_stack", "technical_questions", "answers"} :
           cands[cid][f] = cd[f]

ClosingTexts == { Text("goodbye"), Text("goodbye_saved"), Text("screening_complete") }

\* C1: the scenario (name "Asha Rao", email, phone, experience "3", position
\* "Backend Engineer", location, tech stack, five questions, five answers), run
\* with no database failure, ends, when its inputs are used up or the conversation
\* has ended, with stage COMPLETED, one stored record with five answers and a
\* DATA_CREATED event for the candidate.
C1_EndToEndScenario ==
    (scriptPos >= 0 /\ (scriptPos = Len(Scenario) \/ conversation_ended)) =>
        /\ stage = COMPLETED
        /\ candidate_id \in DOMAIN candidates
        /\ "answers" \in DOMAIN candidates[candidate_id]
        /\ Len(candidates[candidate_id].answers) = num_questions
        /\ \E i \in 1..Len(audit_log) :
               /\ audit_log[i].event_type = "DATA_CREATED"
               /\ audit_log[i].candidate_id = candidate_id

\* C2: no step of a session moves the stage backwards in the fixed order; in
\* particular a processed input without exit or update intent leaves the stage
\* where it is or moves it forward.
C2_StageMonotonic ==
    [][StageIndex(stage') >= StageIndex(stage)]_vars

C2_Witness ==
    /\ stage = COMPLETED
    /\ last.path = "answer"
    /\ Len(candidate_data.answers) = num_questions

\* the claim's rejection cases, per collecting stage
RejectedBy(stg, m) ==
    \/ stg = COLLECTING_EMAIL /\ ~validate_email(m)
    \/ stg = COLLECTING_PHONE /\ ~validate_phone(m)
    \/ stg = COLLECTING_EXPERIENCE /\ ~(\E i \in 1..Len(m) : m[i] \in Digits \cup {"."})
    \/ stg \in {COLLECTING_POSITION, COLLECTING_LOCATION} /\ Len(m) <= 2
    \/ stg = COLLECTING_TECH_STACK /\ Len(m) <= 3

\* C3: when the branch of the current collecting stage rejects the input, the stage
\* and the whole in-memory record are unchanged.
C3_RejectionWritesNothing ==
    [][ (last'.path \in {"collect", "tech_stack"} /\ RejectedBy(stage, last'.input))
        => /\ stage' = stage
           /\ candidate_data' = candidate_data
           /\ current_question_index' = current_question_index ]_vars

C3_Witness ==
    /\ last.path = "collect"
    /\ stage = COLLECTING_PHONE
    /\ last.input = mShort
    /\ candidate_data.phone = <<>>
    /\ messages[2].content = Text("corrective_prompt")

\* the field a collecting stage writes and the value it writes for input m
FieldOf(stg) ==
    CASE stg = COLLECTING_NAME -> "full_name"
      [] stg = COLLECTING_EMAIL -> "email"
      [] stg = COLLECTING_PHONE -> "phone"
      [] stg = COLLECTING_EXPERIENCE -> "years_experience"
      [] stg = COLLECTING_POSITION -> "desired_position"
      [] stg = COLLECTING_LOCATION -> "current_location"

ValueOf(stg, m) ==
    IF stg = COLLECTING_EXPERIENCE THEN FilterChars(m, Digits \cup {"."}) ELSE m

\* C4: when the branch of a stage COLLECTING_NAME .. COLLECTING_LOCATION accepts the
\* input, the field of that stage is written, every other field is unchanged and the
\* stage moves one position forward.
C4_AcceptanceWritesOneField ==
    [][ (last'.path = "collect" /\ ~RejectedBy(stage, last'.input))
        => /\ StageIndex(stage') = StageIndex(stage) + 1
           /\ candidate_data'[FieldOf(stage)] = ValueOf(stage, last'.input)
           /\ \A f \in DOMAIN candidate_data :
                  f # FieldOf(stage) => candidate_data'[f] = candidate_data[f] ]_vars

C4_Witness ==
    /\ last.path = "collect"
    /\ stage = COLLECTING_EXPERIENCE
    /\ last.input = mPhone
    /\ candidate_data.phone = mPhone

\* what the update branch does with input m
UpdateEffect(m) ==
    /\ candidate_data' =
         [candidate_data EXCEPT ![UpdateIntentOf[m]] = last_token(m)]
    /\ stage' = stage
    /\ current_question_index' = current_question_index
    /\ last'.saves = 1
    /\ last'.save_arg = candidate_data'
    /\ last'.write_ok => HoldsRecord(candidates', candidate_id, cipher, candidate_data')

C6_ExitEndsConversation ==
    [][ ( /\ InputStep
          /\ ExitIntentOf[last'.input]
          /\ ~(ContextQuestionOf[last'.input] /\ context_manager) )
        => conversation_ended' ]_vars

\* C7 as stated: the exit branch with a non-empty full_name leaves one record and
\* appends exactly one DATA_CREATED event; with an empty full_name it saves nothing
\* and appends nothing.
C7_ExitPersistsAlways ==
    [][ last'.path = "exit"
        => IF candidate_data.full_name # <<>>
           THEN /\ HoldsRecord(candidates', candidate_id, cipher, candidate_data)
                /\ audit_log' = Append(audit_log, DataCreatedEvent(candidate_id, now))
           ELSE /\ last'.saves = 0
                /\ audit_log' = audit_log ]_vars

\* C7, amended: the exit branch with a non-empty full_name calls save_candidate_data
\* once; if the write succeeds the one document of the candidate holds the record,
\* and if the audit insert succeeds too exactly one DATA_CREATED event is appended;
\* otherwise no event is appended.  With an empty full_name: no save, no event.
C7_ExitPersistsOnce ==
    [][ last'.path = "exit"
        => IF candidate_data.full_name # <<>>
           THEN /\ last'.saves = 1
                /\ last'.save_arg = candidate_data
                /\ last'.write_ok =>
                       HoldsRecord(candidates', candidate_id, cipher, candidate_data)
                /\ audit_log' =
                       IF last'.write_ok /\ last'.insert_ok
                       THEN Append(audit_log, DataCreatedEvent(candidate_id, now))
                       ELSE audit_log
           ELSE /\ last'.saves = 0
                /\ audit_log' = audit_log ]_vars

C7_Witness ==
    /\ last.path = "exit"
    /\ last.saves = 1
    /\ last.write_ok
    /\ last.insert_ok
    /\ conversation_ended
    /\ HoldsRecord(candidates, candidate_id, cipher, candidate_data)
    /\ audit_log # <<>>
    /\ audit_log[Len(audit_log)] = DataCreatedEvent(candidate_id, now)

\* C8: the exit branch and the completion of the last answer always add the closing
\* message and end the conversation, also when save_candidate_data fails.
C8_ClosureDespiteFailure ==
    [][ ( \/ last'.path = "exit"
          \/ (last'.path = "answer" /\ stage = ASKING_QUESTIONS /\ stage' = COMPLETED) )
        => /\ conversation_ended'
           /\ \E i \in 1..Len(messages') :
                  /\ messages'[i].role = "assistant"
                  /\ messages'[i].content \in ClosingTexts ]_vars

\* C9: when the storage write of save_candidate_data fails, the call raises, logs no
\* audit event, and the in-memory record is the record that was passed to the call:
\* no field collected before is emptied, and the conversation stays open for a retry.
C9_FailedSaveKeepsRecord ==
    [][ (last'.saves = 1 /\ ~last'.write_ok)
        => /\ last'.raised
           /\ candidate_data' = last'.save_arg
           /\ \A f \in DOMAIN candidate_data :
                  candidate_data[f] # <<>> => candidate_data'[f] # <<>>
           /\ Len(candidate_data'.answers) >= Len(candidate_data.answers)
           /\ audit_log' = audit_log
           /\ ~conversation_ended' ]_vars

C9_Witness ==
    /\ last.saves = 1
    /\ ~last.write_ok
    /\ last.raised
    /\ last.path = "update"
    /\ candidate_data.full_name = mName
    /\ candidate_data.email = last_token(mUpdEmailBad)

\* C10: the email of the record is empty or passes validate_email, the phone is empty
\* or passes validate_phone.
C10_ContactFieldsValid ==
    /\ candidate_data.email = <<>> \/ validate_email(candidate_data.email)
    /\ candidate_data.phone = <<>> \/ validate_phone(candidate_data.phone)

(***************************************************************************)
(* The candidates collection at rest.                                      *)
(***************************************************************************)
PIIFields == {"full_name", "email", "phone"}
\* the fields of a document that hold text
TextFields == PIIFields \cup {"years_experience", "desired_position", "current_location"}

\* document doc shows the text v unencrypted, in a field or in a stored message
ShowsPlaintext(doc, v) ==
    \/ \E k \in TextFields \cap DOMAIN doc : doc[k] = v
    \/ /\ "conversation_history" \in DOMAIN doc
       /\ \E i \in 1..Len(doc.conversation_history) :
              str_contains(doc.conversation_history[i].message, v)

\* C11: no document of the candidates collection holds the full_name, email or
\* phone of the session's record in plaintext.
C11_EncryptedAtRest ==
    \A cid \in DOMAIN candidates : \A f \in PIIFields :
        candidate_data[f] # <<>> => ~ShowsPlaintext(candidates[cid], candidate_data[f])

(***************************************************************************)
(* MongoDBHandler, the read, delete and retention operations.  A database  *)
(* command (find_one, delete_one, delete_many) either takes effect or      *)
(* raises with no effect; every method catches what it raises.             *)
(***************************************************************************)
\* None, where the caller expects a dict or a string
NoneDict == [none |-> TRUE]

\* Fernet(key).decrypt raises InvalidToken on a token of another key or on text
\* that is no token
DecryptRaises(key, encrypted_data) ==
    /\ encrypted_data # <<>>
    /\ ~( Len(encrypted_data) >= 2
          /\ encrypted_data[1] = "fernet"
          /\ encrypted_data[2] = key )

\* _decrypt_data that decrypts "" like any other value
_decrypt_data_of_empty(key, encrypted_data) ==
    SubSeq(encrypted_data, 3, Len(encrypted_data)) \o
        (IF encrypted_data = <<>> THEN << "fernet" >> ELSE <<>>)

\* _decrypt_data, where it does not raise: "" stays "", a token gives its text
_decrypt_data(key, encrypted_data) ==
    IF encrypted_data = <<>> THEN <<>>
    ELSE SubSeq(encrypted_data, 3, Len(encrypted_data))

\* doc.get(field, default)
DocGet(doc, field, default) == IF field \in DOMAIN doc THEN doc[field] ELSE default

\* datetime.isoformat()
isoformat(t) == << "iso", t >>

\* the dict get_candidate_data builds from a document
decrypted_data(key, doc) ==
    [ candidate_id |-> doc.candidate_id,
      created_at |-> isoformat(doc.created_at),
      retention_until |-> isoformat(doc.retention_until),
      full_name |-> _decrypt_data(key, DocGet(doc, "full_name", <<>>)),
      email |-> _decrypt_data(key, DocGet(doc, "email", <<>>)),
      phone |-> _decrypt_data(key, DocGet(doc, "phone", <<>>)),
      years_experience |-> DocGet(doc, "years_experience", <<>>),
      desired_position |-> DocGet(doc, "desired_position", <<>>),
      current_location |-> DocGet(doc, "current_location", <<>>),
      tech_stack |-> DocGet(doc, "tech_stack", <<>>),
      technical_questions |-> DocGet(doc, "technical_questions", <<>>),
      answers |-> DocGet(doc, "answers", <<>>),
      consent_given |-> DocGet(doc, "consent_given", None),
      consent_timestamp |-> IF "consent_timestamp" \in DOMAIN doc
                            THEN isoformat(doc.consent_timestamp) ELSE None ]

\* building the dict raises: KeyError on a document without created_at or
\* retention_until, InvalidToken on a field the key does not open
ReadRaises(key, doc) ==
    \/ "created_at" \notin DOMAIN doc
    \/ "retention_until" \notin DOMAIN doc
    \/ \E f \in {"full_name", "email", "phone"} : DecryptRaises(key, DocGet(doc, f, <<>>))

\* get_candidate_data whose find_one has no candidate_id filter
get_candidate_data_unfiltered(cands, log, key, cid, t, find_ok, insert_ok) ==
    IF ~find_ok \/ DOMAIN cands = {}
    THEN [result |-> NoneDict, audit_log |-> log]
    ELSE LET first == CHOOSE c \in DOMAIN cands : TRUE
         IN  IF ReadRaises(key, cands[first])
             THEN [result |-> NoneDict, audit_log |-> log]
             ELSE [result |-> decrypted_data(key, cands[first]),
                   audit_log |-> _log_audit_event(log, "DATA_ACCESSED", cid,
                                                  "Data retrieved", t, insert_ok)]

\* get_candidate_data: None on a miss and on every exception, else the decrypted
\* dict after one DATA_ACCESSED event
get_candidate_data(cands, log, key, cid, t, find_ok, insert_ok) ==
    IF ~find_ok \/ cid \notin DOMAIN cands
    THEN [result |-> NoneDict, audit_log |-> log]
    ELSE IF ReadRaises(key, cands[cid])
    THEN [result |-> NoneDict, audit_log |-> log]
    ELSE [result |-> decrypted_data(key, cands[cid]),
          audit_log |-> _log_audit_event(log, "DATA_ACCESSED", cid, "Data retrieved",
                                         t, insert_ok)]

\* f"Exported in {format.upper()} format"
ExportDetails(format) ==
    CASE format = "json" -> "Exported in JSON format"
      [] format = "csv" -> "Exported in CSV format"
      [] format = "xml" -> "Exported in XML format"

\* export_candidate_data: None when get_candidate_data gives None; else one
\* DATA_EXPORTED event, then the dict in the format asked (None for any other)
export_candidate_data(cands, log, key, cid, format, t, find_ok, insert_ok, insert2_ok) ==
    LET got == get_candidate_data(cands, log, key, cid, t, find_ok, insert_ok)
    IN  IF got.result = NoneDict
        THEN [result |-> NoneDict, audit_log |-> got.audit_log]
        ELSE [result |-> IF format \in {"json", "csv"}
                         THEN [format |-> format, data |-> got.result] ELSE NoneDict,
              audit_log |-> _log_audit_event(got.audit_log, "DATA_EXPORTED", cid,
                                             ExportDetails(format), t, insert2_ok)]

\* delete_candidate_data that logs DATA_DELETED whatever delete_one removed
delete_candidate_data_always_logs(cands, log, cid, t, delete_ok, insert_ok) ==
    IF delete_ok
    THEN [result |-> cid \in DOMAIN cands,
          candidates |-> [c \in DOMAIN cands \ {cid} |-> cands[c]],
          audit_log |-> _log_audit_event(log, "DATA_DELETED", cid,
                                         "Data permanently deleted", t, insert_ok)]
    ELSE [result |-> FALSE, candidates |-> cands, audit_log |-> log]

\* delete_candidate_data under a _log_audit_event that lets the failure of its
\* insert out: the except of delete_candidate_data answers False
delete_candidate_data_audit_aborts(cands, log, cid, t, delete_ok, insert_ok) ==
    IF delete_ok /\ cid \in DOMAIN cands
    THEN [result |-> insert_ok,
          candidates |-> [c \in DOMAIN cands \ {cid} |-> cands[c]],
          audit_log |-> _log_audit_event(log, "DATA_DELETED", cid,
                                         "Data permanently deleted", t, insert_ok)]
    ELSE [result |-> FALSE, candidates |-> cands, audit_log |-> log]

\* delete_candidate_data: delete_one by candidate_id; True and one DATA_DELETED
\* event when a document was removed, False on a miss and on an exception
delete_candidate_data(cands, log, cid, t, delete_ok, insert_ok) ==
    IF delete_ok /\ cid \in DOMAIN cands
    THEN [result |-> TRUE,
          candidates |-> [c \in DOMAIN cands \ {cid} |-> cands[c]],
          audit_log |-> _log_audit_event(log, "DATA_DELETED", cid,
                                         "Data permanently deleted", t, insert_ok)]
    ELSE [result |-> FALSE, candidates |-> cands, audit_log |-> log]

\* the filter {"retention_until": {"$lt": t}}: a document without the field does
\* not match
Expired(doc, t) == "retention_until" \in DOMAIN doc /\ doc.retention_until < t

\* f"Deleted {deleted_count} expired records"
BatchDetails(deleted_count) ==
    "Deleted " \o ToString(deleted_count) \o " expired records"

\* cleanup_old_data that compares with <= instead of <
cleanup_old_data_inclusive(cands, log, retention_days, t, delete_ok, partial, insert_ok) ==
    LET gone == {c \in DOMAIN cands :
                    "retention_until" \in DOMAIN cands[c] /\ cands[c].retention_until <= t}
        deleted_count == Cardinality(gone)
    IN  IF delete_ok
        THEN [result |-> deleted_count,
              candidates |-> [c \in DOMAIN cands \ gone |-> cands[c]],
              audit_log |-> IF deleted_count > 0
                            THEN _log_audit_event(log, "BATCH_DELETION", "SYSTEM",
                                     BatchDetails(deleted_count), t, insert_ok)
                            ELSE log]
        ELSE [result |-> 0,
              candidates |-> [c \in DOMAIN cands \ (gone \cap partial) |-> cands[c]],
              audit_log |-> log]

\* cleanup_old_data: delete_many of the expired documents, one BATCH_DELETION event
\* when the count is positive, the count returned; 0 on an exception, which
\* delete_many may raise after it removed the documents of partial.  The
\* parameter retention_days is not used.
cleanup_old_data(cands, log, retention_days, t, delete_ok, partial, insert_ok) ==
    LET gone == {c \in DOMAIN cands : Expired(cands[c], t)}
        deleted_count == Cardinality(gone)
    IN  IF delete_ok
        THEN [result |-> deleted_count,
              candidates |-> [c \in DOMAIN cands \ gone |-> cands[c]],
              audit_log |-> IF deleted_count > 0
                            THEN _log_audit_event(log, "BATCH_DELETION", "SYSTEM",
                                     BatchDetails(deleted_count), t, insert_ok)
                            ELSE log]
        ELSE [result |-> 0,
              candidates |-> [c \in DOMAIN cands \ (gone \cap partial) |-> cands[c]],
              audit_log |-> log]

(***************************************************************************)
(* The handler called directly, for two candidates: every method of        *)
(* MongoDBHandler that reads or writes one candidate's document, and a     *)
(* restart of the application with another encryption key.                 *)
(***************************************************************************)
Keys == {"key_1", "key_2"}
ExportFormats == {"json", "xml"}

\* the records the callers save, one per candidate
RecordOf ==
    [c \in CandidateIds |->
        IF c = "candidate_1"
        THEN [EmptyCandidateData EXCEPT !.full_name = mName, !.email = mEmail,
                                        !.phone = mPhone, !.years_experience = mExp,
                                        !.tech_stack = tech_items(mTech),
                                        !.answers = << mAns >>]
        ELSE [EmptyCandidateData EXCEPT !.full_name = mPos2, !.desired_position = mPos]]

\* history of a direct call of the handler
StoreLast(op, cid, result, db_ok, insert_ok) ==
    [op |-> op, cid |-> cid, result |-> result, db_ok |-> db_ok, insert_ok |-> insert_ok]

\* history of a call of export_candidate_data
ExportLast(cid, format, result, find_ok, insert_ok, insert2_ok) ==
    [op |-> "export", cid |-> cid, format |-> format, result |-> result,
     db_ok |-> find_ok, insert_ok |-> insert_ok /\ insert2_ok,
     export_insert_ok |-> insert2_ok]

\* an audit insert can only succeed while the audit collection takes documents
AuditOutcome(log, attempted, insert_ok) ==
    insert_ok => (attempted /\ Len(log) < MaxAudit)

StoreInit == Init /\ ~context_manager

Save(cid) ==
    \E write_ok \in BOOLEAN, insert_ok \in BOOLEAN :
        /\ SaveOutcome(write_ok, insert_ok)
        /\ LET r == save_candidate_data(candidates, audit_log, cipher, cid, RecordOf[cid],
                                        now, write_ok, insert_ok)
           IN  /\ candidates' = r.candidates
               /\ audit_log' = r.audit_log
               /\ last' = StoreLast("save", cid, IF r.raised THEN "raised" ELSE cid,
                                    write_ok, insert_ok)
        /\ UNCHANGED << sessionVars, cipher, environ, now, calls, scriptPos >>

StoreMessage(cid) ==
    /\ candidates' = add_message(candidates, cid, "user", mAns, stage, now)
    /\ last' = StoreLast("message", cid, None, HistoryHasRoom(candidates, cid), FALSE)
    /\ UNCHANGED << sessionVars, audit_log, cipher, environ, now, calls, scriptPos >>

Get(cid) ==
    \E find_ok \in BOOLEAN, insert_ok \in BOOLEAN :
        /\ AuditOutcome(audit_log,
                        find_ok /\ cid \in DOMAIN candidates
                                /\ ~ReadRaises(cipher, candidates[cid]),
                        insert_ok)
        /\ LET r == get_candidate_data(candidates, audit_log, cipher, cid, now,
                                       find_ok, insert_ok)
           IN  /\ audit_log' = r.audit_log
               /\ last' = StoreLast("get", cid, r.result, find_ok, insert_ok)
        /\ UNCHANGED << sessionVars, candidates, cipher, environ, now, calls, scriptPos >>

Export(cid, format) ==
    \E find_ok \in BOOLEAN, insert_ok \in BOOLEAN, insert2_ok \in BOOLEAN :
        LET read == find_ok /\ cid \in DOMAIN candidates
                            /\ ~ReadRaises(cipher, candidates[cid])
            got == get_candidate_data(candidates, audit_log, cipher, cid, now,
                                      find_ok, insert_ok)
            r == export_candidate_data(candidates, audit_log, cipher, cid, format, now,
                                       find_ok, insert_ok, insert2_ok)
        IN  /\ AuditOutcome(audit_log, read, insert_ok)
            /\ AuditOutcome(got.audit_log, read, insert2_ok)
            /\ audit_log' = r.audit_log
            /\ last' = ExportLast(cid, format, r.result, find_ok, insert_ok, insert2_ok)
            /\ UNCHANGED << sessionVars, candidates, cipher, environ, now, calls, scriptPos >>

Delete(cid) ==
    \E delete_ok \in BOOLEAN, insert_ok \in BOOLEAN :
        /\ AuditOutcome(audit_log, delete_ok, insert_ok)
        /\ LET r == delete_candidate_data(candidates, audit_log, cid, now,
                                          delete_ok, insert_ok)
           IN  /\ candidates' = r.candidates
               /\ audit_log' = r.audit_log
               /\ last' = StoreLast("delete", cid, r.result, delete_ok, insert_ok)
        /\ UNCHANGED << sessionVars, cipher, environ, now, calls, scriptPos >>

\* MongoDBHandler.__init__ of a new run: the key of the environment, or a key
\* generated for this run
Restart(key) ==
    /\ key # cipher
    /\ cipher' = key
    /\ last' = StoreLast("restart", None, None, TRUE, FALSE)
    /\ UNCHANGED << sessionVars, candidates, audit_log, environ, now, calls, scriptPos >>

\* one candidate and every method
StoreNext ==
    \/ Save(NewCandidateId)
    \/ StoreMessage(NewCandidateId)
    \/ Get(NewCandidateId)
    \/ \E format \in ExportFormats : Export(NewCandidateId, format)
    \/ Delete(NewCandidateId)
    \/ \E key \in Keys : Restart(key)

StoreSpec == StoreInit /\ [][StoreNext]_vars

\* two candidates, the methods that take a candidate_id, in any order
IsolationNext ==
    \/ \E cid \in CandidateIds : Save(cid)
    \/ \E cid \in CandidateIds : StoreMessage(cid)
    \/ \E cid \in CandidateIds : Get(cid)
    \/ \E cid \in CandidateIds : Delete(cid)

IsolationSpec == StoreInit /\ [][IsolationNext]_vars

(***************************************************************************)
(* Retention: saves, the passing of time and the sweep, called one after   *)
(* the other.                                                              *)
(***************************************************************************)
\* the clock runs to RetentionDays + MaxDays
MaxDays == 1

\* time passes: a day, or a retention period
Tick ==
    /\ \E d \in {1, RetentionDays} :
           /\ now + d <= RetentionDays + MaxDays
           /\ now' = now + d
    /\ last' = StoreLast("tick", None, None, TRUE, FALSE)
    /\ UNCHANGED << sessionVars, candidates, audit_log, cipher, environ, calls, scriptPos >>

Cleanup ==
    \E delete_ok \in BOOLEAN, insert_ok \in BOOLEAN,
       partial \in SUBSET {c \in DOMAIN candidates : Expired(candidates[c], now)} :
        /\ delete_ok => partial = {}
        /\ AuditOutcome(audit_log,
                        delete_ok /\ \E c \in DOMAIN candidates : Expired(candidates[c], now),
                        insert_ok)
        /\ LET r == cleanup_old_data(candidates, audit_log, RetentionDays, now,
                                     delete_ok, partial, insert_ok)
           IN  /\ candidates' = r.candidates
               /\ audit_log' = r.audit_log
               /\ last' = StoreLast("cleanup", "SYSTEM", r.result, delete_ok, insert_ok)
        /\ UNCHANGED << sessionVars, cipher, environ, now, calls, scriptPos >>

\* the candidates are interviewed in the first MaxDays days
RetentionNext ==
    \/ \E cid \in CandidateIds : now <= MaxDays /\ Save(cid)
    \/ Tick
    \/ Cleanup

RetentionSpec == StoreInit /\ [][RetentionNext]_vars

(***************************************************************************)
(* Properties of the handler.                                              *)
(***************************************************************************)
\* the fields of a stored document that carry what the candidate gave
CollectedFields ==
    {"full_name", "email", "phone", "years_experience", "desired_position",
     "current_location", "tech_stack", "technical_questions", "answers"}

\* every document is filed under its own candidate_id
OnePerCandidate(cands) == \A c \in DOMAIN cands : cands[c].candidate_id = c

\* C12: the collection holds at most one document per candidate_id, and a
\* successful save of a record the document already holds leaves the collection
\* with the same candidates and the document with the same collected fields.
C12_IdempotentUpsert ==
    [][ /\ OnePerCandidate(candidates')
        /\ ( /\ last'.op = "save"
             /\ last'.db_ok
             /\ HoldsRecord(candidates, last'.cid, cipher, RecordOf[last'.cid]) )
           => /\ DOMAIN candidates' = DOMAIN candidates
              /\ HoldsRecord(candidates', last'.cid, cipher, RecordOf[last'.cid])
              /\ \A f \in CollectedFields :
                     candidates'[last'.cid][f] = candidates[last'.cid][f] ]_vars

\* a second save of the same record has just succeeded
C12_Witness ==
    /\ last.op = "save"
    /\ last.db_ok
    /\ Len(audit_log) = 2
    /\ audit_log[1].event_type = "DATA_CREATED"
    /\ audit_log[2].event_type = "DATA_CREATED"
    /\ audit_log[1].candidate_id = audit_log[2].candidate_id
    /\ DOMAIN candidates = {last.cid}
    /\ HoldsRecord(candidates, last.cid, cipher, RecordOf[last.cid])

\* C13: a save for a candidate whose document already carries created_at and
\* retention_until leaves both as they were.
C13_RetentionSetOnce ==
    [][ ( /\ last'.op = "save"
          /\ last'.cid \in DOMAIN candidates
          /\ "retention_until" \in DOMAIN candidates[last'.cid] )
        => /\ candidates'[last'.cid].created_at = candidates[last'.cid].created_at
           /\ candidates'[last'.cid].retention_until =
                  candidates[last'.cid].retention_until ]_vars

\* C14 as stated: a save whose write succeeds appends exactly one DATA_CREATED event
\* for its candidate_id, a save whose write fails appends none.
C14_SaveAuditsAlways ==
    [][ last'.op = "save"
        => audit_log' = IF last'.db_ok
                        THEN Append(audit_log, DataCreatedEvent(last'.cid, now))
                        ELSE audit_log ]_vars

\* C14, amended: the one event is appended when the write and the audit insert
\* succeed; a failed audit insert is swallowed and a failed write logs nothing.
C14_SaveAudits ==
    [][ last'.op = "save"
        => /\ audit_log' = IF last'.db_ok /\ last'.insert_ok
                           THEN Append(audit_log, DataCreatedEvent(last'.cid, now))
                           ELSE audit_log
           /\ (last'.result = "raised") = ~last'.db_ok ]_vars

\* a save of a candidate who was saved before has logged its event
C14_Witness ==
    /\ last.op = "save"
    /\ last.db_ok
    /\ last.insert_ok
    /\ Len(audit_log) = 2
    /\ audit_log[1] = DataCreatedEvent(last.cid, now)
    /\ audit_log[2] = DataCreatedEvent(last.cid, now)
    /\ "conversation_history" \in DOMAIN candidates[last.cid]

DataAccessedEvent(cid, t) ==
    [timestamp |-> t, event_type |-> "DATA_ACCESSED", candidate_id |-> cid,
     details |-> "Data retrieved"]

\* C15: when find_one answers, get_candidate_data gives None and logs nothing if
\* the candidate has no document; if the candidate has a document it gives the
\* record, and the only event it appends is one DATA_ACCESSED.
C15_GetHitOrMiss ==
    [][ (last'.op = "get" /\ last'.db_ok)
        => IF last'.cid \notin DOMAIN candidates
           THEN /\ last'.result = NoneDict
                /\ audit_log' = audit_log
           ELSE /\ last'.result # NoneDict
                /\ last'.result.candidate_id = last'.cid
                /\ \/ audit_log' = Append(audit_log, DataAccessedEvent(last'.cid, now))
                   \/ (~last'.insert_ok /\ audit_log' = audit_log) ]_vars

\* the document of the candidate cannot be read with the current key
Unreadable(cands, key, cid) ==
    /\ cid \in DOMAIN cands
    /\ \E f \in PIIFields : DecryptRaises(key, DocGet(cands[cid], f, <<>>))

\* C16: get_candidate_data and export_candidate_data do not answer None, the
\* answer of a miss, for a document whose fields the current key cannot decrypt.
C16_UnreadableNotAbsent ==
    [][ ( /\ last'.op \in {"get", "export"}
          /\ last'.db_ok
          /\ Unreadable(candidates, cipher, last'.cid) )
        => last'.result # NoneDict ]_vars

DataDeletedEvent(cid, t) ==
    [timestamp |-> t, event_type |-> "DATA_DELETED", candidate_id |-> cid,
     details |-> "Data permanently deleted"]

\* C17 as stated: delete_candidate_data returns true iff the document existed and
\* was removed; on true the document is gone and exactly one DATA_DELETED event is
\* appended; on false the collection and the audit log are unchanged.
C17_DeleteLogsAlways ==
    [][ last'.op = "delete"
        => /\ last'.result = ( /\ last'.cid \in DOMAIN candidates
                               /\ last'.cid \notin DOMAIN candidates' )
           /\ IF last'.result
              THEN /\ candidates' = [c \in DOMAIN candidates \ {last'.cid} |-> candidates[c]]
                   /\ audit_log' = Append(audit_log, DataDeletedEvent(last'.cid, now))
              ELSE /\ candidates' = candidates
                   /\ audit_log' = audit_log ]_vars

\* C17, amended: the same, the one DATA_DELETED event being appended on true unless
\* the audit insert fails.
C17_DeleteLogs ==
    [][ last'.op = "delete"
        => /\ last'.result = ( /\ last'.cid \in DOMAIN candidates
                               /\ last'.cid \notin DOMAIN candidates' )
           /\ IF last'.result
              THEN /\ candidates' = [c \in DOMAIN candidates \ {last'.cid} |-> candidates[c]]
                   /\ audit_log' = IF last'.insert_ok
                                   THEN Append(audit_log, DataDeletedEvent(last'.cid, now))
                                   ELSE audit_log
              ELSE /\ candidates' = candidates
                   /\ audit_log' = audit_log ]_vars

\* a saved record was deleted and the deletion logged
C17_Witness ==
    /\ last.op = "delete"
    /\ last.result = TRUE
    /\ last.cid \notin DOMAIN candidates
    /\ Len(audit_log) = 2
    /\ audit_log[1] = DataCreatedEvent(last.cid, now)
    /\ audit_log[2] = DataDeletedEvent(last.cid, now)

BatchDeletionEvent(deleted_count, t) ==
    [timestamp |-> t, event_type |-> "BATCH_DELETION", candidate_id |-> "SYSTEM",
     details |-> BatchDetails(deleted_count)]

\* the documents a sweep at time t has to remove
ExpiredIds(cands, t) ==
    {c \in DOMAIN cands : "retention_until" \in DOMAIN cands[c]
                          /\ cands[c].retention_until < t}

\* C18 as stated: a sweep removes exactly the documents whose retention_until is
\* earlier than now, returns their number, appends one BATCH_DELETION event of
\* candidate_id "SYSTEM" iff the number is positive; a sweep right after a sweep
\* removes nothing and appends nothing.
C18_SweepAlways ==
    [][ last'.op = "cleanup"
        => /\ candidates' = [c \in DOMAIN candidates \ ExpiredIds(candidates, now)
                               |-> candidates[c]]
           /\ last'.result = Cardinality(ExpiredIds(candidates, now))
           /\ audit_log' = IF last'.result > 0
                           THEN Append(audit_log, BatchDeletionEvent(last'.result, now))
                           ELSE audit_log
           /\ last.op = "cleanup"
              => (candidates' = candidates /\ audit_log' = audit_log) ]_vars

\* C18, amended: the same for a sweep whose delete_many succeeds, the event being
\* appended unless the audit insert fails; a sweep whose delete_many raises returns
\* 0 and appends nothing, and what it removed before were expired documents; a
\* sweep right after a sweep that succeeded removes nothing and appends nothing.
C18_Sweep ==
    [][ last'.op = "cleanup"
        => /\ IF last'.db_ok
              THEN /\ candidates' = [c \in DOMAIN candidates \ ExpiredIds(candidates, now)
                                       |-> candidates[c]]
                   /\ last'.result = Cardinality(ExpiredIds(candidates, now))
                   /\ audit_log' = IF last'.result > 0 /\ last'.insert_ok
                                   THEN Append(audit_log,
                                               BatchDeletionEvent(last'.result, now))
                                   ELSE audit_log
              ELSE /\ \A c \in DOMAIN candidates \ ExpiredIds(candidates, now) :
                          c \in DOMAIN candidates' /\ candidates'[c] = candidates[c]
                   /\ \A c \in DOMAIN candidates' :
                          c \in DOMAIN candidates /\ candidates'[c] = candidates[c]
                   /\ last'.result = 0
                   /\ audit_log' = audit_log
           /\ (last.op = "cleanup" /\ last.db_ok)
              => (candidates' = candidates /\ audit_log' = audit_log
                  /\ last'.result = 0) ]_vars

\* a sweep removed the one expired record, logged it, and left the record that
\* expires today
C18_Witness ==
    /\ last.op = "cleanup"
    /\ last.result = 1
    /\ DOMAIN candidates = {"candidate_2"}
    /\ candidates["candidate_2"].retention_until = now
    /\ audit_log # <<>>
    /\ audit_log[Len(audit_log)] = BatchDeletionEvent(1, now)

(***************************************************************************)
(* Two cleanup_old_data calls at the same time.  delete_many removes the   *)
(* matching documents one at a time, each removal atomic; its              *)
(* deleted_count is the number of documents this call removed.             *)
(***************************************************************************)
Sweepers == {"sweep_1", "sweep_2"}
SweepIds == CandidateIds \cup {"candidate_3"}

\* a call that has not started
IdleCall == [pc |-> "idle", cutoff |-> 0, deleted_count |-> 0]

\* delete_many that takes its count from the documents matching when it starts
begin_delete_many_precounted(cands, t) ==
    [pc |-> "deleting", cutoff |-> t,
     deleted_count |-> Cardinality({c \in DOMAIN cands : Expired(cands[c], t)})]

\* delete_many starts: the filter is built with datetime.now()
begin_delete_many(cands, t) ==
    [pc |-> "deleting", cutoff |-> t, deleted_count |-> 0]

\* history of the sweeps: who removed which document, what the calls returned,
\* how many audit inserts failed, how many delete_many raised after they started
SweepLast(deleted, returned, lost, raised) ==
    [op |-> "sweep", deleted |-> deleted, returned |-> returned, lost |-> lost,
     raised |-> raised]

\* the collections the sweeps start from: each candidate saved on one of the first
\* days or never, one of them perhaps only with a stored conversation
SweepInit ==
    /\ \E saved \in [SweepIds -> (0..MaxDays) \cup {-1, -2}] :
          candidates =
            [c \in {x \in SweepIds : saved[x] # -1} |->
                IF saved[c] = -2
                THEN SetFields(UpsertBase(c),
                               [conversation_history |->
                                   << [role |-> "user", message |-> mAns,
                                       stage |-> GREETING, timestamp |-> 0] >>])
                ELSE SetFields(UpsertBase(c),
                               encrypted_doc("key_1", c, EmptyCandidateData, saved[c]))]
    /\ now \in RetentionDays..(RetentionDays + MaxDays)
    /\ calls = [p \in Sweepers |-> IdleCall]
    /\ last = SweepLast(<<>>, 0, 0, 0)
    /\ audit_log = <<>>
    /\ cipher = "key_1"
    /\ environ = NoEnviron
    /\ consent_given = FALSE
    /\ stage = GREETING
    /\ candidate_data = EmptyCandidateData
    /\ current_question_index = 0
    /\ conversation_ended = FALSE
    /\ candidate_id = None
    /\ context_manager = FALSE
    /\ messages = <<>>
    /\ scriptPos = 0

\* cleanup_old_data is called: delete_many starts, or raises at once
SweepStart(p) ==
    /\ calls[p].pc = "idle"
    /\ \E delete_ok \in BOOLEAN :
          calls' = [calls EXCEPT ![p] =
                       IF delete_ok THEN begin_delete_many(candidates, now)
                       ELSE [pc |-> "raised", cutoff |-> now, deleted_count |-> 0]]
    /\ UNCHANGED << sessionVars, candidates, audit_log, cipher, environ, now, last, scriptPos >>

\* delete_many removes one matching document
SweepDeleteOne(p) ==
    /\ calls[p].pc = "deleting"
    /\ \E c \in DOMAIN candidates :
          /\ Expired(candidates[c], calls[p].cutoff)
          /\ candidates' = [x \in DOMAIN candidates \ {c} |-> candidates[x]]
          /\ last' = [last EXCEPT !.deleted = Append(@, [by |-> p, cid |-> c])]
    /\ calls' = [calls EXCEPT ![p].deleted_count = @ + 1]
    /\ UNCHANGED << sessionVars, audit_log, cipher, environ, now, scriptPos >>

\* delete_many returns; the count is logged if positive, and returned
SweepFinish(p) ==
    /\ calls[p].pc = "deleting"
    /\ ~\E c \in DOMAIN candidates : Expired(candidates[c], calls[p].cutoff)
    /\ \E insert_ok \in BOOLEAN :
          /\ AuditOutcome(audit_log, calls[p].deleted_count > 0, insert_ok)
          /\ audit_log' =
                IF calls[p].deleted_count > 0
                THEN _log_audit_event(audit_log, "BATCH_DELETION", "SYSTEM",
                                      BatchDetails(calls[p].deleted_count), now, insert_ok)
                ELSE audit_log
          /\ last' = [last EXCEPT
                        !.returned = @ + calls[p].deleted_count,
                        !.lost = IF calls[p].deleted_count > 0 /\ ~insert_ok
                                 THEN @ + 1 ELSE @]
    /\ calls' = [calls EXCEPT ![p].pc = "done"]
    /\ UNCHANGED << sessionVars, candidates, cipher, environ, now, scriptPos >>

\* delete_many raises after some removals: cleanup_old_data returns 0, logs nothing
SweepRaise(p) ==
    /\ calls[p].pc = "deleting"
    /\ calls' = [calls EXCEPT ![p].pc = "raised"]
    /\ last' = [last EXCEPT !.raised = @ + 1]
    /\ UNCHANGED << sessionVars, candidates, audit_log, cipher, environ, now, scriptPos >>

\* a day passes while the sweeps run
SweepTick ==
    /\ now < RetentionDays + MaxDays + 1
    /\ now' = now + 1
    /\ UNCHANGED << sessionVars, candidates, audit_log, cipher, environ, calls, last, scriptPos >>

SweepNext ==
    \/ \E p \in Sweepers : SweepStart(p)
    \/ \E p \in Sweepers : SweepDeleteOne(p)
    \/ \E p \in Sweepers : SweepFinish(p)
    \/ \E p \in Sweepers : SweepRaise(p)
    \/ SweepTick

SweepSpec == SweepInit /\ [][SweepNext]_vars

\* the count written in a BATCH_DELETION event
CountIn(event) ==
    CHOOSE n \in 0..Cardinality(SweepIds) : BatchDetails(n) = event.details

RECURSIVE EventCounts(_)
EventCounts(log) ==
    IF log = <<>> THEN 0
    ELSE EventCounts(Tail(log))
         + (IF Head(log).event_type = "BATCH_DELETION" THEN CountIn(Head(log)) ELSE 0)

\* the number of documents caller p removed
RemovedBy(p) == Cardinality({i \in 1..Len(last.deleted) : last.deleted[i].by = p})

NoSweepRunning == \A p \in Sweepers : calls[p].pc # "deleting"

\* no document was removed twice
RemovedOnce ==
    \A i, j \in 1..Len(last.deleted) :
        i # j => last.deleted[i].cid # last.deleted[j].cid

\* C19 as stated: no document is removed by both calls, and once the calls have
\* returned the counts they returned, and the counts in their BATCH_DELETION events,
\* add up to the number of documents removed.
C19_NoDoubleCountLogged ==
    /\ RemovedOnce
    /\ NoSweepRunning => /\ last.returned = Len(last.deleted)
                         /\ EventCounts(audit_log) = Len(last.deleted)

\* the documents removed by the calls that returned their count
RemovedByReturned ==
    Cardinality({i \in 1..Len(last.deleted) : calls[last.deleted[i].by].pc = "done"})

\* C19, amended: no document is removed by both calls; each call counts exactly the
\* documents it removed; a call whose delete_many raises returns 0 whatever it
\* removed, so the counts returned add up to the number removed by the calls whose
\* delete_many succeeded; each BATCH_DELETION event carries the count of one such
\* call, so the counts logged add up to the counts returned when no audit insert
\* failed, and to less otherwise.
C19_NoDoubleCount ==
    /\ RemovedOnce
    /\ \A p \in Sweepers : calls[p].deleted_count = RemovedBy(p)
    /\ NoSweepRunning =>
          /\ last.returned = RemovedByReturned
          /\ last.returned <= Len(last.deleted)
          /\ EventCounts(audit_log) <= last.returned
          /\ (last.lost = 0) = (EventCounts(audit_log) = last.returned)

\* both calls have returned, each after removing some of the three expired records
C19_Witness ==
    /\ \A p \in Sweepers : calls[p].pc = "done" /\ calls[p].deleted_count >= 1
    /\ Len(last.deleted) = 3
    /\ candidates = <<>>
    /\ Len(audit_log) = 2
    /\ EventCounts(audit_log) = 3

(***************************************************************************)
(* Operations for two candidates, interleaved                               *)
(***************************************************************************)

\* the document of candidate d is the same before and after the step
SameDocument(d) ==
    /\ (d \in DOMAIN candidates) = (d \in DOMAIN candidates')
    /\ d \in DOMAIN candidates => candidates'[d] = candidates[d]

\* C20: a save, get, delete or conversation message issued for one candidate_id
\* neither creates, changes nor removes the document of the other candidate_id,
\* and a get that returns a dict returns the candidate_id asked for and the
\* fields of its own document.
C20_Isolation ==
    [][\A c \in CandidateIds :
          last'.cid = c =>
             /\ \A d \in CandidateIds \ {c} : SameDocument(d)
             /\ (last'.op = "get" /\ last'.result # NoneDict) =>
                   /\ c \in DOMAIN candidates
                   /\ last'.result.candidate_id = c
                   /\ last'.result = decrypted_data(cipher, candidates[c])]_vars

\* both candidates are stored with their records and a conversation, and a get for
\* the second returned its record
C20_Witness ==
    /\ DOMAIN candidates = CandidateIds
    /\ \A c \in CandidateIds :
          /\ "conversation_history" \in DOMAIN candidates[c]
          /\ "full_name" \in DOMAIN candidates[c]
    /\ last.op = "get"
    /\ last.cid = "candidate_2"
    /\ last.result # NoneDict
    /\ last.result.full_name = RecordOf["candidate_2"].full_name
    /\ last.result.full_name # RecordOf["candidate_1"].full_name

(***************************************************************************)
(* Deletes and writes for the same candidate_id.  Every method sends one   *)
(* command for the document (update_one with upsert, delete_one); the      *)
(* sweep's delete_many tests and removes the document in one step, some    *)
(* time after it took its cutoff.                                          *)
(***************************************************************************)
Sweeper == "sweep_1"

RaceInit ==
    /\ consent_given = FALSE
    /\ stage = GREETING
    /\ candidate_data = EmptyCandidateData
    /\ current_question_index = 0
    /\ conversation_ended = FALSE
    /\ candidate_id = None
    /\ context_manager = FALSE
    /\ messages = <<>>
    /\ candidates = <<>>
    /\ audit_log = <<>>
    /\ cipher = "key_1"
    /\ environ = NoEnviron
    /\ now = 0
    /\ calls = [p \in {Sweeper} |-> IdleCall]
    /\ last = StoreLast("init", None, None, TRUE, FALSE)
    /\ scriptPos = 0

\* time passes: a day in the first days, or a retention period
RaceTick ==
    /\ \E d \in {1, RetentionDays} :
           /\ d = 1 => now < MaxDays
           /\ now + d <= RetentionDays + MaxDays
           /\ now' = now + d
    /\ last' = StoreLast("tick", None, None, TRUE, FALSE)
    /\ UNCHANGED << sessionVars, candidates, audit_log, cipher, environ, calls, scriptPos >>

\* cleanup_old_data is called: delete_many starts, or raises at once
RaceSweepStart ==
    /\ calls[Sweeper].pc = "idle"
    /\ \E delete_ok \in BOOLEAN :
          /\ calls' = [calls EXCEPT ![Sweeper] =
                          IF delete_ok THEN begin_delete_many(candidates, now)
                          ELSE IdleCall]
          /\ last' = StoreLast("sweep_start", "SYSTEM", 0, delete_ok, FALSE)
    /\ UNCHANGED << sessionVars, candidates, audit_log, cipher, environ, now, scriptPos >>

\* delete_many removes a document that matches the filter
RaceSweepDeleteOne ==
    /\ calls[Sweeper].pc = "deleting"
    /\ \E c \in DOMAIN candidates :
          /\ Expired(candidates[c], calls[Sweeper].cutoff)
          /\ candidates' = [x \in DOMAIN candidates \ {c} |-> candidates[x]]
          /\ last' = StoreLast("sweep_delete", c, TRUE, TRUE, FALSE)
    /\ calls' = [calls EXCEPT ![Sweeper].deleted_count = @ + 1]
    /\ UNCHANGED << sessionVars, audit_log, cipher, environ, now, scriptPos >>

\* delete_many returns, or raises: the count is logged if positive, and returned
RaceSweepFinish ==
    /\ calls[Sweeper].pc = "deleting"
    /\ \E delete_ok \in BOOLEAN, insert_ok \in BOOLEAN :
          LET deleted_count == calls[Sweeper].deleted_count
              logs == delete_ok /\ deleted_count > 0
          IN  /\ delete_ok =>
                    ~\E c \in DOMAIN candidates :
                          Expired(candidates[c], calls[Sweeper].cutoff)
              /\ AuditOutcome(audit_log, logs, insert_ok)
              /\ audit_log' =
                    IF logs
                    THEN _log_audit_event(audit_log, "BATCH_DELETION", "SYSTEM",
                                          BatchDetails(deleted_count), now, insert_ok)
                    ELSE audit_log
              /\ last' = StoreLast("cleanup", "SYSTEM",
                                   IF delete_ok THEN deleted_count ELSE 0,
                                   delete_ok, insert_ok)
    /\ calls' = [calls EXCEPT ![Sweeper] = IdleCall]
    /\ UNCHANGED << sessionVars, candidates, cipher, environ, now, scriptPos >>

RaceNext ==
    \/ Save(NewCandidateId)
    \/ StoreMessage(NewCandidateId)
    \/ Delete(NewCandidateId)
    \/ RaceTick
    \/ RaceSweepStart
    \/ RaceSweepDeleteOne
    \/ RaceSweepFinish

RaceSpec == RaceInit /\ [][RaceNext]_vars

\* the step is a write for c that took effect: the update_one of
\* save_candidate_data or of store_conversation_message
WriteTookEffect(c) ==
    /\ last'.cid = c
    /\ last'.op \in {"save", "message"}
    /\ last'.db_ok

\* the step is a delete of c that took effect: the delete_one of
\* delete_candidate_data, or the sweep's delete_many reaching the document
DeleteTookEffect(c) ==
    /\ last'.cid = c
    /\ \/ last'.op = "delete" /\ last'.db_ok
       \/ last'.op = "sweep_delete"

\* C21: when deletes and writes for the same candidate_id interleave, the last one
\* that took effect wins: after a delete (delete_candidate_data, or the sweep
\* removing the expired document) the document is absent, after a write
\* (save_candidate_data or store_conversation_message) a document exists, also
\* when it had been deleted, and nothing else changes whether it exists.
C21_LastWriterWins ==
    [][\A c \in CandidateIds :
          /\ DeleteTookEffect(c) => c \notin DOMAIN candidates'
          /\ WriteTookEffect(c) => /\ c \in DOMAIN candidates'
                                   /\ candidates'[c].candidate_id = c
          /\ ~DeleteTookEffect(c) /\ ~WriteTookEffect(c) =>
                (c \in DOMAIN candidates') = (c \in DOMAIN candidates)]_vars

\* the record was saved, expired and was removed by the sweep, and a later save
\* stored a document for the candidate_id again
C21_Witness ==
    /\ Len(audit_log) = 2
    /\ audit_log[1].event_type = "DATA_CREATED"
    /\ audit_log[2].event_type = "BATCH_DELETION"
    /\ last.op = "save"
    /\ last.cid = NewCandidateId
    /\ last.db_ok
    /\ NewCandidateId \in DOMAIN candidates
    /\ candidates[NewCandidateId].created_at > RetentionDays

(***************************************************************************)
(* Export.                                                                 *)
(***************************************************************************)

\* the events a step appended to the audit log
NewEvents == SubSeq(audit_log', Len(audit_log) + 1, Len(audit_log'))

\* the number of DATA_EXPORTED events a step appended
ExportedEvents ==
    Cardinality({i \in 1..Len(NewEvents) : NewEvents[i].event_type = "DATA_EXPORTED"})

\* the call returned a serialized string
Serialized(result) == result # NoneDict

\* C22: export_candidate_data for a candidate without a document returns None and
\* appends no DATA_EXPORTED event; for a document that get_candidate_data can
\* read and format json or csv it returns the serialized record and appends one
\* DATA_EXPORTED event (none when the audit insert fails); and a call appends a
\* DATA_EXPORTED event only if it returns a serialized string.
C22_ExportLogsWhatItReturns ==
    [][ last'.op = "export" =>
          /\ last'.cid \notin DOMAIN candidates =>
                ~Serialized(last'.result) /\ ExportedEvents = 0
          /\ ( /\ last'.cid \in DOMAIN candidates
               /\ last'.db_ok
               /\ ~ReadRaises(cipher, candidates[last'.cid])
               /\ last'.format \in {"json", "csv"} ) =>
                /\ Serialized(last'.result)
                /\ last'.result.format = last'.format
                /\ last'.result.data = decrypted_data(cipher, candidates[last'.cid])
                /\ ExportedEvents = (IF last'.export_insert_ok THEN 1 ELSE 0)
          /\ ExportedEvents > 0 => Serialized(last'.result) ]_vars

(***************************************************************************)
(* The encryption key: get_encryption_key and _validate_and_encode_key,    *)
(* called once by MongoDBHandler.__init__.  Key material is text; a        *)
(* character outside ASCII ("e_acute") takes two bytes in UTF-8.           *)
(***************************************************************************)
NonAscii == {"e_acute"}
Base64Chars == Letters \cup Digits \cup {"-", "_"}
\* the length of the key Fernet wants, in bytes
FernetKeyBytes == 32

\* len(s.encode())
utf8_len(s) == Len(s) + Len(FilterChars(s, NonAscii))

\* len(base64.urlsafe_b64decode(s)), -1 where it raises: characters outside
\* the alphabet are dropped, the rest must come in groups of four
b64decoded_len(s) ==
    LET data == FilterChars(s, Base64Chars)
        pad == Len(FilterChars(s, {"="}))
    IN  IF (Len(data) + pad) % 4 = 0 /\ pad <= 2 /\ Len(data) > 0
        THEN (Len(data) * 3) \div 4
        ELSE -1

\* key.encode(), and base64.urlsafe_b64encode(key.encode())
encoded(key) == [encoding |-> "utf8", text |-> key]
urlsafe_b64encode(key) == [encoding |-> "b64", text |-> key]

\* Fernet(key_bytes) does not raise
FernetAccepts(key_bytes) ==
    IF key_bytes.encoding = "utf8"
    THEN b64decoded_len(key_bytes.text) = FernetKeyBytes
    ELSE utf8_len(key_bytes.text) = FernetKeyBytes

\* key.ljust(width, fill)
str_ljust(key, width, fill) ==
    key \o [i \in 1..(IF Len(key) < width THEN width - Len(key) ELSE 0) |-> fill]

\* _validate_and_encode_key: the key as it is if Fernet takes it, else the key
\* padded or cut to 32 characters and base64-encoded; ValueError if Fernet
\* refuses that too
_validate_and_encode_key(key) ==
    LET fixed == IF Len(key) < FernetKeyBytes
                 THEN str_ljust(key, FernetKeyBytes, "0")
                 ELSE SubSeq(key, 1, FernetKeyBytes)
    IN  IF FernetAccepts(encoded(key))
        THEN [key |-> encoded(key), raised |-> FALSE]
        ELSE IF FernetAccepts(urlsafe_b64encode(fixed))
        THEN [key |-> urlsafe_b64encode(fixed), raised |-> FALSE]
        ELSE [key |-> NoneDict, raised |-> TRUE]

\* a variable of the environment, or a field of the secret
Unset == [set |-> FALSE, value |-> <<>>]
SetTo(value) == [set |-> TRUE, value |-> value]
\* os.getenv(name, default)
getenv(variable, default) == IF variable.set THEN variable.value ELSE default
\* the truth value of os.getenv(name) and of secret_json.get(name)
Truthy(variable) == variable.set /\ variable.value # <<>>

\* key material: a Fernet key, a short and a long passphrase, one with an accent
kFernet == [i \in 1..44 |-> IF i = 44 THEN "=" ELSE "A"]
kShort == <<"s", "e", "c", "r", "e", "t">>
kLong == [i \in 1..40 |-> "x"]
kAccent == <<"c", "l", "e_acute">>
\* values of APP_ENV
tDevelopment == <<"d", "e", "v", "e", "l", "o", "p", "m", "e", "n", "t">>
tDevelopmentCap == <<"D", "e", "v", "e", "l", "o", "p", "m", "e", "n", "t">>
tProduction == <<"p", "r", "o", "d", "u", "c", "t", "i", "o", "n">>
tStaging == <<"s", "t", "a", "g", "i", "n", "g">>

\* Fernet.generate_key(): a key nobody holds yet
GeneratedKeys == { [encoding |-> "generated", text |-> << g >>] : g \in {"new_1", "new_2"} }

KeyMaterials == { Unset, SetTo(<<>>), SetTo(kFernet), SetTo(kShort), SetTo(kLong),
                  SetTo(kAccent) }
AppEnvs == { Unset, SetTo(<<>>), SetTo(tDevelopment), SetTo(tDevelopmentCap),
             SetTo(tProduction), SetTo(tStaging) }
\* get_secret_value raises, or the secret is read with or without FERNET_KEY
Secrets == { [reachable |-> FALSE, FERNET_KEY |-> Unset] }
           \cup { [reachable |-> TRUE, FERNET_KEY |-> k] :
                    k \in { Unset, SetTo(kFernet), SetTo(kShort), SetTo(kAccent) } }

Environments ==
    [ENCRYPTION_KEY : KeyMaterials, APP_ENV : AppEnvs, secret : Secrets]

KeyResult(key, error, consulted) == [key |-> key, error |-> error, consulted |-> consulted]

\* get_encryption_key that asks the secrets manager before it looks at
\* ENCRYPTION_KEY
get_encryption_key_secret_first(env, new_key) ==
    LET app_env == str_lower(getenv(env.APP_ENV, tDevelopment))
        fetched == env.secret.reachable /\ Truthy(env.secret.FERNET_KEY)
        from_secret == _validate_and_encode_key(env.secret.FERNET_KEY.value)
        from_env == _validate_and_encode_key(env.ENCRYPTION_KEY.value)
    IN  IF fetched /\ ~from_secret.raised
        THEN KeyResult(from_secret.key, None, << "secretsmanager" >>)
        ELSE IF Truthy(env.ENCRYPTION_KEY)
        THEN IF from_env.raised
             THEN KeyResult(NoneDict, "ValueError", << "secretsmanager", "environment" >>)
             ELSE KeyResult(from_env.key, None, << "secretsmanager", "environment" >>)
        ELSE IF app_env = tDevelopment
        THEN KeyResult(new_key, None, << "secretsmanager", "environment", "generate" >>)
        ELSE KeyResult(NoneDict, "RuntimeError", << "secretsmanager", "environment" >>)

\* get_encryption_key that takes an unset APP_ENV for production
get_encryption_key_default_production(env, new_key) ==
    LET app_env == str_lower(getenv(env.APP_ENV, tProduction))
        fetched == env.secret.reachable /\ Truthy(env.secret.FERNET_KEY)
        from_secret == _validate_and_encode_key(env.secret.FERNET_KEY.value)
        from_env == _validate_and_encode_key(env.ENCRYPTION_KEY.value)
    IN  IF Truthy(env.ENCRYPTION_KEY)
        THEN IF from_env.raised
             THEN KeyResult(NoneDict, "ValueError", << "environment" >>)
             ELSE KeyResult(from_env.key, None, << "environment" >>)
        ELSE IF fetched /\ ~from_secret.raised
        THEN KeyResult(from_secret.key, None, << "environment", "secretsmanager" >>)
        ELSE IF app_env = tDevelopment
        THEN KeyResult(new_key, None, << "environment", "secretsmanager", "generate" >>)
        ELSE KeyResult(NoneDict, "RuntimeError", << "environment", "secretsmanager" >>)

\* get_encryption_key: ENCRYPTION_KEY if set and not empty; else the FERNET_KEY
\* of the secret; else, whatever went wrong with the secret, a new key under
\* APP_ENV development and RuntimeError under any other.  consulted lists the
\* sources in the order they are asked.
get_encryption_key(env, new_key) ==
    LET app_env == str_lower(getenv(env.APP_ENV, tDevelopment))
        fetched == env.secret.reachable /\ Truthy(env.secret.FERNET_KEY)
        from_secret == _validate_and_encode_key(env.secret.FERNET_KEY.value)
        from_env == _validate_and_encode_key(env.ENCRYPTION_KEY.value)
    IN  IF Truthy(env.ENCRYPTION_KEY)
        THEN IF from_env.raised
             THEN KeyResult(NoneDict, "ValueError", << "environment" >>)
             ELSE KeyResult(from_env.key, None, << "environment" >>)
        ELSE IF fetched /\ ~from_secret.raised
        THEN KeyResult(from_secret.key, None, << "environment", "secretsmanager" >>)
        ELSE IF app_env = tDevelopment
        THEN KeyResult(new_key, None, << "environment", "secretsmanager", "generate" >>)
        ELSE KeyResult(NoneDict, "RuntimeError", << "environment", "secretsmanager" >>)

\* the secret gives a key that Fernet takes, as it is or converted
SecretYieldsKey(env) ==
    /\ env.secret.reachable
    /\ Truthy(env.secret.FERNET_KEY)
    /\ ~_validate_and_encode_key(env.secret.FERNET_KEY.value).raised

\* neither ENCRYPTION_KEY nor the secrets manager gives a key, and APP_ENV is not set
NoKeyNoTag(env) ==
    /\ ~Truthy(env.ENCRYPTION_KEY)
    /\ ~SecretYieldsKey(env)
    /\ ~env.APP_ENV.set

\* the process before MongoDBHandler() is called; previous is the key of the
\* handler of the run before, none at first, and whether that run had neither a
\* key nor APP_ENV
StartLast(key, unconfigured) ==
    [op |-> "start", previous |-> [key |-> key, unconfigured |-> unconfigured]]

\* history of a construction of the handler
InitLast(connected, r, previous) ==
    [op |-> "__init__", connected |-> connected, key |-> r.key, error |-> r.error,
     consulted |-> r.consulted, previous |-> previous]

KeyInit ==
    /\ consent_given = FALSE
    /\ stage = GREETING
    /\ candidate_data = EmptyCandidateData
    /\ current_question_index = 0
    /\ conversation_ended = FALSE
    /\ candidate_id = None
    /\ context_manager = FALSE
    /\ messages = <<>>
    /\ candidates = <<>>
    /\ audit_log = <<>>
    /\ cipher = NoneDict
    /\ environ \in Environments
    /\ now = 0
    /\ calls = NoCalls
    /\ last = StartLast(NoneDict, FALSE)
    /\ scriptPos = 0

\* MongoDBHandler.__init__: connect, or raise; resolve the key, or raise; build
\* the cipher.  Fernet.generate_key() gives 32 random bytes: a key the handler of
\* the run before did not have.
Construct ==
    /\ last.op = "start"
    /\ \E connect_ok \in BOOLEAN, new_key \in GeneratedKeys \ {last.previous.key} :
          LET r == IF connect_ok THEN get_encryption_key(environ, new_key)
                   ELSE KeyResult(NoneDict, "ServerSelectionTimeoutError", <<>>)
          IN  /\ cipher' = r.key
              /\ last' = InitLast(connect_ok, r, last.previous)
    /\ UNCHANGED << sessionVars, candidates, audit_log, environ, now, calls, scriptPos >>

\* the environment changes before the application is started again
Reconfigure ==
    /\ last.op = "__init__"
    /\ environ' \in Environments
    /\ cipher' = NoneDict
    /\ last' = StartLast(cipher, NoKeyNoTag(environ))
    /\ UNCHANGED << sessionVars, candidates, audit_log, now, calls, scriptPos >>

KeyNext == Construct \/ Reconfigure

KeySpec == KeyInit /\ [][KeyNext]_vars

\* the sources in the order of their priority
KeySources == << "environment", "secretsmanager", "generate" >>

\* the handler was constructed as far as get_encryption_key
KeyResolutionRan == last.op = "__init__" /\ last.connected

\* C23: get_encryption_key asks the environment, then the secrets manager, then
\* generates: with ENCRYPTION_KEY set it asks nothing else and generates nothing;
\* it asks the secrets manager before it generates; it generates only when
\* ENCRYPTION_KEY is not set and the secrets manager gave no key.
C23_KeyPriority ==
    KeyResolutionRan =>
        /\ Len(last.consulted) >= 1
        /\ last.consulted = SubSeq(KeySources, 1, Len(last.consulted))
        /\ Truthy(environ.ENCRYPTION_KEY) =>
              /\ last.consulted = << "environment" >>
              /\ cipher \notin GeneratedKeys
        /\ (cipher \in GeneratedKeys) = (Len(last.consulted) = 3)
        /\ cipher \in GeneratedKeys =>
              /\ ~Truthy(environ.ENCRYPTION_KEY)
              /\ ~SecretYieldsKey(environ)

\* no ENCRYPTION_KEY and no secret in a development deployment: both were asked,
\* then a key was generated
C23_Witness ==
    /\ KeyResolutionRan
    /\ environ.ENCRYPTION_KEY = Unset
    /\ ~environ.secret.reachable
    /\ environ.APP_ENV = SetTo(tDevelopmentCap)
    /\ last.consulted = KeySources
    /\ cipher \in GeneratedKeys

\* APP_ENV, read as get_encryption_key reads it, is not development
NonDevelopment(env) == str_lower(getenv(env.APP_ENV, tDevelopment)) # tDevelopment

\* C24: get_encryption_key raises exactly when ENCRYPTION_KEY is not set, the
\* secrets manager gives no key and APP_ENV is not development; it then raises
\* RuntimeError, generates no key and no handler is constructed; in every other
\* case it returns a key.
C24_FailsOnlyWithoutKeyInProduction ==
    KeyResolutionRan =>
        IF /\ ~Truthy(environ.ENCRYPTION_KEY)
           /\ ~SecretYieldsKey(environ)
           /\ NonDevelopment(environ)
        THEN /\ last.error = "RuntimeError"
             /\ cipher = NoneDict
             /\ Len(last.consulted) < 3
        ELSE /\ last.error = None
             /\ cipher # NoneDict

(***************************************************************************)
(* Encryption round trip.                                                  *)
(***************************************************************************)

\* the values the callers encrypt: the PII fields of the records, and ""
Plaintexts ==
    { RecordOf[c][f] : c \in CandidateIds, f \in PIIFields } \cup { <<>>, kAccent }

\* what was encrypted with a key is decrypted by it to the same text, and "" is
\* stored as ""
RoundTrip ==
    \A key \in Keys, p \in Plaintexts :
        /\ ~DecryptRaises(key, _encrypt_data(key, p))
        /\ _decrypt_data(key, _encrypt_data(key, p)) = p
        /\ _encrypt_data(key, <<>>) = <<>>
        /\ p # <<>> => _encrypt_data(key, p) # p

\* C25: _decrypt_data(_encrypt_data(p)) = p for every plaintext p and either key,
\* _encrypt_data("") = "", and a get_candidate_data that returns the record of a
\* candidate returns the full_name, email and phone that were saved.
C25_RoundTrip ==
    [][ /\ RoundTrip
        /\ (last'.op = "get" /\ last'.result # NoneDict) =>
              \A f \in PIIFields : last'.result[f] = RecordOf[last'.cid][f] ]_vars

\* the record of the second candidate, whose email and phone are "", was saved
\* and read: the name is stored encrypted and came back as it was saved
C25_Witness ==
    /\ last.op = "get"
    /\ last.cid = "candidate_2"
    /\ last.result # NoneDict
    /\ last.result.full_name = mPos2
    /\ last.result.email = <<>>
    /\ "candidate_2" \in DOMAIN candidates
    /\ candidates["candidate_2"].full_name = _encrypt_data(cipher, mPos2)
    /\ candidates["candidate_2"].full_name # mPos2
    /\ candidates["candidate_2"].email = <<>>

(***************************************************************************)
(* The audit log under every operation that writes to it, and its reader.  *)
(***************************************************************************)

\* get_audit_log: find without a sort on a collection that only takes inserts,
\* all events or those of one candidate_id; [] on an exception
get_audit_log(log, cid, find_ok) ==
    IF ~find_ok THEN <<>>
    ELSE IF cid = None THEN log
    ELSE SelectSeq(log, LAMBDA event : event.candidate_id = cid)

\* get_audit_log(), or get_audit_log(candidate_id)
GetAuditLog(cid) ==
    /\ \E find_ok \in BOOLEAN :
          last' = StoreLast("get_audit_log", cid, get_audit_log(audit_log, cid, find_ok),
                            find_ok, FALSE)
    /\ UNCHANGED << sessionVars, storeVars, scriptPos >>

AuditNext ==
    \/ Save(NewCandidateId)
    \/ Get(NewCandidateId)
    \/ Export(NewCandidateId, "json")
    \/ Delete(NewCandidateId)
    \/ RaceTick
    \/ Cleanup
    \/ \E cid \in {None, NewCandidateId} : GetAuditLog(cid)

AuditSpec == StoreInit /\ [][AuditNext]_vars

EventTypes ==
    {"DATA_CREATED", "DATA_ACCESSED", "DATA_EXPORTED", "DATA_DELETED", "BATCH_DELETION"}

\* log is the beginning of later
IsPrefix(log, later) ==
    /\ Len(log) <= Len(later)
    /\ SubSeq(later, 1, Len(log)) = log

\* C26: every operation leaves the events already logged as they are and where
\* they are, and only appends; get_audit_log returns the events, all or those of
\* one candidate_id, in the order they were inserted; every event has one of the
\* five types, and candidate_id SYSTEM exactly when its type is BATCH_DELETION.
C26_AuditAppendOnly ==
    [][ /\ IsPrefix(audit_log, audit_log')
        /\ \A i \in 1..Len(audit_log') :
              /\ audit_log'[i].event_type \in EventTypes
              /\ (audit_log'[i].candidate_id = "SYSTEM")
                    = (audit_log'[i].event_type = "BATCH_DELETION")
        /\ (last'.op = "get_audit_log" /\ last'.db_ok) =>
              /\ last'.cid = None => last'.result = audit_log
              /\ last'.cid # None =>
                    /\ \A i \in 1..Len(last'.result) :
                          last'.result[i].candidate_id = last'.cid
                    /\ Len(last'.result) =
                          Cardinality({i \in 1..Len(audit_log) :
                                          audit_log[i].candidate_id = last'.cid})
                    /\ \E pos \in [1..Len(last'.result) -> 1..Len(audit_log)] :
                          /\ \A i \in 1..Len(last'.result) :
                                audit_log[pos[i]] = last'.result[i]
                          /\ \A i, j \in 1..Len(last'.result) :
                                i < j => pos[i] < pos[j] ]_vars

\* the record was saved and deleted: its document is gone, its two events are
\* still in the log, and get_audit_log returned them in that order
C26_Witness ==
    /\ Len(audit_log) = 2
    /\ audit_log[1].event_type = "DATA_CREATED"
    /\ audit_log[2].event_type = "DATA_DELETED"
    /\ NewCandidateId \notin DOMAIN candidates
    /\ last.op = "get_audit_log"
    /\ last.cid = NewCandidateId
    /\ last.result = audit_log

\* C27: an operation whose audit insert fails ends as it would have otherwise:
\* save_candidate_data returns the candidate_id and the record is stored,
\* get_candidate_data returns the record, delete_candidate_data returns True and
\* the document is gone, cleanup_old_data returns the number it deleted; the audit
\* log stays as it was.
C27_AuditFailureDoesNotAbort ==
    [][ (last'.op \in {"save", "get", "delete", "cleanup"}
         /\ last'.db_ok /\ ~last'.insert_ok) =>
          LET cid == last'.cid
              stored == cid \in DOMAIN candidates
          IN  /\ audit_log' = audit_log
              /\ last'.op = "save" =>
                    /\ last'.result = cid
                    /\ HoldsRecord(candidates', cid, cipher, RecordOf[cid])
              /\ (last'.op = "get" /\ stored /\ ~ReadRaises(cipher, candidates[cid])) =>
                    last'.result = decrypted_data(cipher, candidates[cid])
              /\ (last'.op = "delete" /\ stored) =>
                    /\ last'.result = TRUE
                    /\ cid \notin DOMAIN candidates'
              /\ last'.op = "cleanup" =>
                    /\ last'.result = Cardinality(ExpiredIds(candidates, now))
                    /\ DOMAIN candidates' = DOMAIN candidates \ ExpiredIds(candidates, now)
      ]_vars

\* a delete whose audit insert failed: True was returned, the document is gone
\* and no DATA_DELETED event was logged
C27_Witness ==
    /\ last.op = "delete"
    /\ last.db_ok
    /\ ~last.insert_ok
    /\ last.result = TRUE
    /\ NewCandidateId \notin DOMAIN candidates
    /\ Len(audit_log) = 1
    /\ audit_log[1].event_type = "DATA_CREATED"

(***************************************************************************)
(* The technical questions and their answers.                              *)
(***************************************************************************)

\* the step handled an input in the branch of the stage named by path
StageStep(path) == last'.op = "process_user_input" /\ last'.path = path

\* C28: whatever number of questions generate_technical_questions returns, none
\* included, an accepted tech-stack input is processed without an exception, and
\* from then on every answer is processed and moves the question index on by one,
\* the stage being COMPLETED once the index has reached the number of questions:
\* the session completes after as many answers as there are questions.
C28_ToleratesFewerQuestions ==
    [][ /\ (StageStep("tech_stack") /\ Len(last'.input) > 3) =>
              /\ ~last'.raised
              /\ stage' \in {ASKING_QUESTIONS, COMPLETED}
        /\ StageStep("answer") =>
              /\ current_question_index' = current_question_index + 1
              /\ current_question_index' >= Len(candidate_data'.technical_questions)
                    => stage' = COMPLETED
        /\ stage' = ASKING_QUESTIONS =>
              current_question_index' < Len(candidate_data'.technical_questions)
      ]_vars

\* C29: an input handled as an answer in ASKING_QUESTIONS appends one pair of the
\* current question and the input, and adds one to the question index; at all
\* times there are as many answers as the index says and no more than questions,
\* answer i belongs to question i, and the questions, once generated, stay.
C29_AnswersFollowQuestions ==
    [][ LET questions == candidate_data.technical_questions
            answers == candidate_data'.answers
        IN  /\ StageStep("answer") =>
                  /\ current_question_index < Len(questions)
                  /\ answers = Append(candidate_data.answers,
                                      [question |-> questions[current_question_index + 1],
                                       answer |-> last'.input])
                  /\ current_question_index' = current_question_index + 1
            /\ Len(answers) = current_question_index'
            /\ Len(answers) <= Len(candidate_data'.technical_questions)
            /\ \A i \in 1..Len(answers) :
                  /\ i <= Len(candidate_data'.technical_questions)
                  /\ answers[i].question = candidate_data'.technical_questions[i]
            /\ stage \in {ASKING_QUESTIONS, COMPLETED} =>
                  candidate_data'.technical_questions = questions
      ]_vars

\* C30: once the questions are generated, the stage is COMPLETED exactly when the
\* question index has reached their number; the step that completes calls
\* save_candidate_data once, with the in-memory record that holds every answer.
C30_CompletionPersists ==
    [][ LET questions == candidate_data'.technical_questions
        IN  /\ stage' \in {ASKING_QUESTIONS, COMPLETED} =>
                  (current_question_index' = Len(questions)) = (stage' = COMPLETED)
            /\ (stage # COMPLETED /\ stage' = COMPLETED) =>
                  /\ StageStep("answer")
                  /\ last'.saves = 1
                  /\ last'.save_arg = candidate_data'
            /\ stage' = COMPLETED => Len(candidate_data'.answers) = Len(questions)
      ]_vars

(***************************************************************************)
(* The end of the screening.                                               *)
(***************************************************************************)
\* C31: once the stage is COMPLETED, no step changes the stage or any field of the
\* in-memory candidate record.
C31_CompletedIsTerminal ==
    [][ stage = COMPLETED => /\ stage' = COMPLETED
                             /\ candidate_data' = candidate_data ]_vars

(***************************************************************************)
(* Consent.                                                                *)
(***************************************************************************)
\* C32: every document of the store belongs to the candidate_id of the session and
\* exists only once consent_given is true; the candidate_id is assigned with the
\* consent and never changes afterwards.
C32_RecordOnlyAfterConsent ==
    /\ [](\A cid \in DOMAIN candidates : cid = candidate_id /\ consent_given)
    /\ [](consent_given <=> candidate_id # None)
    /\ [][candidate_id # None => candidate_id' = candidate_id]_vars

C32_Witness ==
    /\ consent_given
    /\ candidate_id = NewCandidateId
    /\ candidate_id \in DOMAIN candidates
    /\ last.path = "update"
    /\ last.write_ok
    /\ HoldsRecord(candidates, candidate_id, cipher, candidate_data)

(***************************************************************************)
(* The pure functions of helper.py, streamlit_app.py and MongoDBHandler,   *)
(* called on their own with inputs drawn from bounded sets of texts.       *)
(***************************************************************************)
\* characters of a years_experience text
MaxExpLen == 3

DigitChars == << "0", "1", "2", "3", "4", "5", "6", "7", "8", "9" >>
DigitValue(c) == (CHOOSE i \in 1..Len(DigitChars) : DigitChars[i] = c) - 1

\* int() of a text of digits, 0 for the empty text
RECURSIVE int_of(_)
int_of(s) ==
    IF s = <<>> THEN 0
    ELSE Len(DigitChars) * int_of(SubSeq(s, 1, Len(s) - 1)) + DigitValue(s[Len(s)])

\* float(experience_years) on a text of digits and dots: ValueError unless the text
\* has a digit and at most one dot; else the whole part of the number and whether a
\* digit after the dot is not zero
float(s) ==
    LET dots == {i \in 1..Len(s) : s[i] = "."}
        dot == IF dots = {} THEN Len(s) + 1 ELSE CHOOSE i \in dots : TRUE
    IN  IF Cardinality(dots) > 1 \/ Len(s) - Cardinality(dots) = 0
        THEN [raised |-> TRUE, whole |-> 0, fraction |-> FALSE]
        ELSE [raised |-> FALSE,
              whole |-> int_of(SubSeq(s, 1, dot - 1)),
              fraction |-> \E i \in (dot + 1)..Len(s) : s[i] # "0"]

\* exp_float < n for a whole number n
float_lt(f, n) == f.whole < n

\* generate_technical_questions: the experience level put into the prompt
exp_level(experience_years) ==
    LET exp_float == float(experience_years)
    IN  IF exp_float.raised THEN "intermediate"
        ELSE IF float_lt(exp_float, 2) THEN "beginner (0-2 years)"
        ELSE IF float_lt(exp_float, 5) THEN "intermediate (3-5 years)"
        ELSE "advanced (6+ years)"

\* the texts the experience stage stores: digits and dots
ExperienceTexts == UNION { [1..n -> Digits \cup {"."}] : n \in 1..MaxExpLen }

\* the process before a function is called
CallInit ==
    /\ consent_given = FALSE
    /\ stage = GREETING
    /\ candidate_data = EmptyCandidateData
    /\ current_question_index = 0
    /\ conversation_ended = FALSE
    /\ candidate_id = None
    /\ context_manager = FALSE
    /\ messages = <<>>
    /\ candidates = <<>>
    /\ audit_log = <<>>
    /\ cipher = "key_1"
    /\ environ = NoEnviron
    /\ now = 0
    /\ calls = NoCalls
    /\ last = [op |-> "start"]
    /\ scriptPos = 0

\* history of a call of a pure function
CallLast(op, input, result) == [op |-> op, input |-> input, result |-> result]

\* generate_technical_questions, as far as the experience level
Classify(experience_years) ==
    /\ last.op = "start"
    /\ last' = CallLast("generate_technical_questions", experience_years,
                        exp_level(experience_years))
    /\ UNCHANGED << sessionVars, storeVars, scriptPos >>

\* the bucket an experience level of the prompt names
Bucket(level) ==
    CASE level = "beginner (0-2 years)" -> "beginner"
      [] level \in {"intermediate (3-5 years)", "intermediate"} -> "intermediate"
      [] level = "advanced (6+ years)" -> "advanced"

\* the last call classified a text that is a number
Classified == last.op = "generate_technical_questions" /\ ~float(last.input).raised

\* C33: a years_experience below 2 is classified beginner, one from 2 to 5
\* inclusive intermediate, one above 5 advanced.
C33_ExperienceBuckets ==
    Classified =>
        LET f == float(last.input)
        IN  Bucket(last.result) =
                IF f.whole < 2 THEN "beginner"
                ELSE IF f.whole < 5 \/ (f.whole = 5 /\ ~f.fraction) THEN "intermediate"
                ELSE "advanced"

\* str.upper()
str_upper(s) ==
    [i \in 1..Len(s) |->
        IF \E j \in 1..26 : LowerChars[j] = s[i]
        THEN UpperChars[CHOOSE j \in 1..26 : LowerChars[j] = s[i]]
        ELSE s[i]]

\* "weekend", "Not Interested.", "hello", "by e", "no  thanks", "thanks, no"
tWeekend == <<"w", "e", "e", "k", "e", "n", "d">>
tNotInterested == <<"N", "o", "t", " ", "I", "n", "t", "e", "r", "e", "s", "t", "e", "d", ".">>
tHello == <<"h", "e", "l", "l", "o">>
tByE == <<"b", "y", " ", "e">>
tNoThanksWide == <<"n", "o", " ", " ", "t", "h", "a", "n", "k", "s">>
tThanksNo == <<"t", "h", "a", "n", "k", "s", ",", " ", "n", "o">>

\* texts around which a keyword or a trigger is typed
Affixes == { <<>>, <<"x">>, <<" ">>, <<"\n">> }

\* the texts check_exit_intent is called with: every keyword in lower and upper
\* case, alone and inside a longer text, and texts without a keyword
ExitTexts ==
    { pre \o k \o post :
        k \in UNION { {exit_keywords[i], str_upper(exit_keywords[i])} :
                        i \in 1..Len(exit_keywords) },
        pre \in Affixes, post \in Affixes }
    \cup { tWeekend, tNotInterested, tHello, tByE, tNoThanksWide, tThanksNo, <<>> }

CheckExit(user_input) ==
    /\ last.op = "start"
    /\ last' = CallLast("check_exit_intent", user_input, check_exit_intent(user_input))
    /\ UNCHANGED << sessionVars, storeVars, scriptPos >>

\* the keywords as the specification lists them
ListedExitKeywords ==
    { <<"b", "y", "e">>, <<"g", "o", "o", "d", "b", "y", "e">>, <<"e", "x", "i", "t">>,
      <<"q", "u", "i", "t">>, <<"s", "t", "o", "p">>, <<"e", "n", "d">>,
      <<"c", "a", "n", "c", "e", "l">>, <<"n", "o", " ", "t", "h", "a", "n", "k", "s">>,
      <<"n", "o", "t", " ", "i", "n", "t", "e", "r", "e", "s", "t", "e", "d">>,
      <<"l", "e", "a", "v", "e">>, <<"c", "l", "o", "s", "e">>,
      <<"f", "i", "n", "i", "s", "h">>, <<"d", "o", "n", "e">> }

\* C34: check_exit_intent returns true exactly when the lower-cased message
\* contains, anywhere, one of the thirteen listed keywords.
C34_ExitIsSubstringMatch ==
    last.op = "check_exit_intent" =>
        last.result = (\E k \in ListedExitKeywords : str_contains(str_lower(last.input), k))

C34_Witness ==
    /\ last.op = "check_exit_intent"
    /\ last.input = tWeekend
    /\ last.result

\* "change my email, call me" and "Change My Position and change my location"
tEmailThenName ==
    <<"c", "h", "a", "n", "g", "e", " ", "m", "y", " ", "e", "m", "a", "i", "l", ",", " ",
      "c", "a", "l", "l", " ", "m", "e">>
tPositionThenLocation ==
    <<"C", "h", "a", "n", "g", "e", " ", "M", "y", " ", "P", "o", "s", "i", "t", "i", "o", "n",
      " ", "a", "n", "d", " ",
      "c", "h", "a", "n", "g", "e", " ", "m", "y", " ", "l", "o", "c", "a", "t", "i", "o", "n">>
\* "change my  email" and "update my location"
tChangeWide == <<"c", "h", "a", "n", "g", "e", " ", "m", "y", " ", " ", "e", "m", "a", "i", "l">>
tUpdateLocation ==
    <<"u", "p", "d", "a", "t", "e", " ", "m", "y", " ", "l", "o", "c", "a", "t", "i", "o", "n">>

\* every trigger phrase of the table
Triggers ==
    UNION { {update_patterns[i].triggers[j] : j \in 1..Len(update_patterns[i].triggers)} :
              i \in 1..Len(update_patterns) }

\* the texts detect_update_intent is called with: every trigger in lower and upper
\* case, alone and inside a longer text, every two triggers one after the other,
\* and texts without a trigger
UpdateTexts ==
    { pre \o t \o post :
        t \in UNION { {t, str_upper(t)} : t \in Triggers },
        pre \in Affixes, post \in Affixes }
    \cup { t1 \o <<" ">> \o t2 : t1 \in Triggers, t2 \in Triggers }
    \cup { tEmailThenName, tPositionThenLocation, tChangeWide, tUpdateLocation, tHello, <<>> }

DetectUpdate(user_input) ==
    /\ last.op = "start"
    /\ last' = CallLast("detect_update_intent", user_input,
                        [field |-> detect_update_intent(user_input)])
    /\ UNCHANGED << sessionVars, storeVars, scriptPos >>

\* the order of the fields as the specification gives it
ListedFieldOrder ==
    << "full_name", "email", "phone", "current_location", "desired_position" >>

\* the trigger phrases of a field
TriggersOf(field) ==
    LET e == update_patterns[CHOOSE i \in 1..Len(update_patterns) :
                                update_patterns[i].field = field]
    IN  {e.triggers[j] : j \in 1..Len(e.triggers)}

\* positions in ListedFieldOrder of the fields a trigger of which is in the text
MatchingFields(text) ==
    { i \in 1..Len(ListedFieldOrder) :
        \E t \in TriggersOf(ListedFieldOrder[i]) : str_contains(str_lower(text), t) }

\* C35: detect_update_intent returns the first field, in the order full_name, email,
\* phone, current_location, desired_position, a trigger of which is in the
\* lower-cased message, and none when no trigger is.
C35_FirstMatchingField ==
    last.op = "detect_update_intent" =>
        LET hits == MatchingFields(last.input)
        IN  last.result.field =
                IF hits = {} THEN NoField
                ELSE ListedFieldOrder[CHOOSE i \in hits : \A j \in hits : i <= j]

C35_Witness ==
    /\ last.op = "detect_update_intent"
    /\ last.input = tEmailThenName
    /\ Cardinality(MatchingFields(last.input)) = 2
    /\ last.result.field = "full_name"

\* digits of the longest phone number typed
MaxPhoneDigits == 16

\* the first n digits of 9876543210987654...
PhoneDigits(n) == [i \in 1..n |-> DigitChars[Len(DigitChars) - ((i - 1) % Len(DigitChars))]]

\* n digits typed in a style: with a separator after every third digit, with a
\* country prefix in brackets, or as they are
Typed(n, style) ==
    LET d == PhoneDigits(n)
        sep == CASE style = "spaced" -> <<" ">>
                 [] style = "dashed" -> <<"-">>
                 [] style = "tabbed" -> <<"\t">>
                 [] style = "lines" -> <<"\n">>
                 [] style = "dotted" -> <<".">>
                 [] OTHER -> <<>>
        RECURSIVE grouped(_)
        grouped(i) ==
            IF i > n THEN <<>>
            ELSE (IF i > 1 /\ i % 3 = 1 THEN sep ELSE <<>>) \o << d[i] >> \o grouped(i + 1)
    IN  CASE style = "plain" -> d
          [] style = "prefixed" ->
               IF n < 2 THEN <<"+">> \o d
               ELSE <<"+", "(">> \o SubSeq(d, 1, 2) \o <<")", " ">> \o SubSeq(d, 3, n)
          [] style = "extension" -> d \o <<"x">>
          [] OTHER -> grouped(1)

PhoneStyles ==
    { "plain", "spaced", "dashed", "tabbed", "lines", "dotted", "prefixed", "extension" }

\* the texts validate_phone is called with
PhoneTexts == { Typed(n, style) : n \in 0..MaxPhoneDigits, style \in PhoneStyles }

ValidatePhone(phone) ==
    /\ last.op = "start"
    /\ last' = CallLast("validate_phone", phone, validate_phone(phone))
    /\ UNCHANGED << sessionVars, storeVars, scriptPos >>

\* the call has returned: the next one starts
Return ==
    /\ last.op # "start"
    /\ last' = [op |-> "start"]
    /\ UNCHANGED << sessionVars, storeVars, scriptPos >>

CallNext ==
    \/ Return
    \/ \E experience_years \in ExperienceTexts : Classify(experience_years)
    \/ \E user_input \in ExitTexts : CheckExit(user_input)
    \/ \E user_input \in UpdateTexts : DetectUpdate(user_input)
    \/ \E phone \in PhoneTexts : ValidatePhone(phone)

CallSpec == CallInit /\ [][CallNext]_vars

\* the text without the characters of the set
Without(s, chars) == SelectSeq(s, LAMBDA c : c \notin chars)

\* what is left of the text has only digits, and 10 to 15 of them
TenToFifteenDigits(s) ==
    /\ \A i \in 1..Len(s) : s[i] \in Digits
    /\ 10 <= Len(s)
    /\ Len(s) <= 15

\* C36 as stated: validate_phone returns true exactly for the texts that, after
\* removing spaces, '-', '(', ')' and '+', have only digits, and 10 to 15 of them.
C36_PhoneStrippedOfSpaces ==
    last.op = "validate_phone" =>
        last.result = TenToFifteenDigits(Without(last.input, {" ", "-", "(", ")", "+"}))

\* C36, amended: the same after removing every whitespace character (space, tab,
\* newline), '-', '(', ')' and '+'.
C36_PhoneStrippedOfWhitespace ==
    last.op = "validate_phone" =>
        last.result =
            TenToFifteenDigits(Without(last.input, {" ", "\t", "\n", "-", "(", ")", "+"}))

C36_Witness ==
    /\ last.op = "validate_phone"
    /\ last.input = Typed(10, "lines")
    /\ last.result

(***************************************************************************)
(* Lifecycle metadata of the stored documents.                             *)
(***************************************************************************)
\* C37: every document of the candidates collection carries created_at and
\* retention_until, so that the retention sweep selects it once its retention
\* window has passed.
C37_StoredDocumentsExpire ==
    \A cid \in DOMAIN candidates :
        /\ "created_at" \in DOMAIN candidates[cid]
        /\ "retention_until" \in DOMAIN candidates[cid]
        /\ now > candidates[cid].retention_until => cid \in ExpiredIds(candidates, now)

(***************************************************************************)
(* The order of the intent checks.                                         *)
(***************************************************************************)
\* C38: a message with an exit keyword and an update trigger (one that reaches the
\* intent checks) takes the exit branch only: no field of the record is
\* overwritten and the conversation ends.
C38_ExitBeforeUpdate ==
    [][ ( /\ InputStep
          /\ ExitIntentOf[last'.input]
          /\ UpdateIntentOf[last'.input] # NoField
          /\ ~(ContextQuestionOf[last'.input] /\ context_manager) )
        => /\ last'.path = "exit"
           /\ candidate_data' = candidate_data
           /\ conversation_ended' ]_vars

(***************************************************************************)
(* Two starts without a configured key.                                    *)
(***************************************************************************)
\* the handler of the run before was constructed, in the same situation
PreviousAlsoNoKeyNoTag ==
    /\ last.previous.key # NoneDict
    /\ last.previous.unconfigured

\* C39: with no environment key, a failing secrets manager and APP_ENV unset,
\* get_encryption_key raises nothing and returns a generated key; the handler
\* constructed before in the same situation had another generated key, and what
\* it encrypted the new handler cannot decrypt.
C39_UnsetTagGeneratesNewKey ==
    (KeyResolutionRan /\ NoKeyNoTag(environ)) =>
        /\ last.error = None
        /\ last.key \in GeneratedKeys
        /\ last.consulted[Len(last.consulted)] = "generate"
        /\ cipher = last.key
        /\ PreviousAlsoNoKeyNoTag =>
              /\ last.previous.key \in GeneratedKeys
              /\ last.previous.key # cipher
              /\ \A data \in Plaintexts \ {<<>>} :
                     DecryptRaises(cipher, _encrypt_data(last.previous.key, data))

C39_Witness ==
    /\ KeyResolutionRan
    /\ NoKeyNoTag(environ)
    /\ ~environ.secret.reachable
    /\ PreviousAlsoNoKeyNoTag
    /\ cipher \in GeneratedKeys
    /\ DecryptRaises(cipher, _encrypt_data(last.previous.key, mName))

(***************************************************************************)
(* The record and the conversation history of one document: saves and      *)
(* message pushes in any order.  Here messages is the whole list           *)
(* st.session_state.messages, to which add_message appends before it       *)
(* calls store_conversation_message.                                       *)
(***************************************************************************)
\* what add_message is called with
MessageRoles == { "user", "assistant" }
MessageTexts == { mAns, Text("next_question") }

\* add_message for a session whose candidate_id is set
AddMessage(cid, role, content) ==
    /\ Len(messages) <= MaxHistory
    /\ messages' = Append(messages, Msg(role, content))
    /\ candidates' = add_message(candidates, cid, role, content, stage, now)
    /\ last' = StoreLast("message", cid, None, HistoryHasRoom(candidates, cid), FALSE)
    /\ UNCHANGED << consent_given, stage, candidate_data, current_question_index,
                    conversation_ended, candidate_id, context_manager,
                    audit_log, cipher, environ, now, calls, scriptPos >>

HistoryNext ==
    \/ Save(NewCandidateId)
    \/ \E role \in MessageRoles, content \in MessageTexts :
          AddMessage(NewCandidateId, role, content)

HistorySpec == StoreInit /\ [][HistoryNext]_vars

\* the conversation_history of the candidate's document, empty when there is none
HistoryOf(cands, cid) ==
    IF cid \in DOMAIN cands /\ "conversation_history" \in DOMAIN cands[cid]
    THEN cands[cid].conversation_history ELSE <<>>

\* the fields of the candidate's document other than conversation_history
RecordFieldsOf(cands, cid) ==
    IF cid \in DOMAIN cands
    THEN [f \in DOMAIN cands[cid] \ {"conversation_history"} |-> cands[cid][f]]
    ELSE <<>>

\* the messages add_message was called with while the history had room
StoredMessages ==
    SubSeq(messages, 1, IF Len(messages) < MaxHistory THEN Len(messages) ELSE MaxHistory)

\* C40: a save leaves the conversation_history as it is; a message push that is
\* applied appends one entry at its end and leaves every other field as it is, one
\* that fails changes nothing; the history holds the stored messages in the order
\* of the calls.
C40_DisjointFrames ==
    /\ [][ last'.op = "save" =>
               HistoryOf(candidates', last'.cid) = HistoryOf(candidates, last'.cid) ]_vars
    /\ [][ last'.op = "message" =>
               IF last'.db_ok
               THEN /\ Len(HistoryOf(candidates', last'.cid))
                          = Len(HistoryOf(candidates, last'.cid)) + 1
                    /\ SubSeq(HistoryOf(candidates', last'.cid), 1,
                              Len(HistoryOf(candidates, last'.cid)))
                          = HistoryOf(candidates, last'.cid)
                    /\ RecordFieldsOf(candidates', last'.cid)
                          = IF last'.cid \in DOMAIN candidates
                            THEN RecordFieldsOf(candidates, last'.cid)
                            ELSE UpsertBase(last'.cid)
               ELSE candidates' = candidates ]_vars
    /\ [](LET h == HistoryOf(candidates, NewCandidateId)
          IN  /\ Len(h) = Len(StoredMessages)
              /\ \A i \in 1..Len(h) :
                     /\ h[i].role = StoredMessages[i].role
                     /\ h[i].message = StoredMessages[i].content)

C40_Witness ==
    /\ last.op = "save"
    /\ last.db_ok
    /\ Len(HistoryOf(candidates, NewCandidateId)) = 2
    /\ HistoryOf(candidates, NewCandidateId)[1].role = "assistant"
    /\ HistoryOf(candidates, NewCandidateId)[2].role = "user"
    /\ HoldsRecord(candidates, NewCandidateId, cipher, RecordOf[NewCandidateId])

====
